---- MODULE Spec2Model ----
(***************************************************************************)
(* A state-machine model of the mini_ecom backend: the authentication app  *)
(* (users, profiles, email-verification / password-reset tokens and the    *)
(* HTTP handlers over them) and the products app (category tree, product   *)
(* stock).  Every handler is one action; the database tables are the       *)
(* state.                                                                  *)
(***************************************************************************)
EXTENDS Integers, Sequences, FiniteSets, TLC

VARIABLES
    users,        \* auth_user table: id -> row
    profiles,     \* UserProfile table: user id -> row (one-to-one)
    tokens,       \* EmailVerificationToken table: token (uuid) -> row
    now,          \* timezone.now(), in minutes
    ticks,        \* how many times the clock has advanced
    issued,       \* every token row ever created: token -> [user, at, via]
    jwt,          \* user ids a JWT access/refresh pair was issued to
    resp,         \* the response of the last request
    reqs,         \* in-flight requests of the interleaved handlers
    changes,      \* token -> how many committed changes (activation,
                  \* password reset) were made on its authority
    categories,   \* Category table: id -> row
    products,     \* Product table: id -> row
    inst,         \* loaded Product instances: worker -> in-memory row
    call,         \* the last model-method call and what it returned
    images,       \* ProductImage table: id -> row
    data,         \* the product last serialized into a response
    hits          \* every product ever created: pk -> completed view-count
                  \* increments

vars == <<users, profiles, tokens, now, ticks, issued, jwt, resp, reqs,
          changes, categories, products, inst, call, images, data, hits>>

authVars == <<users, profiles, tokens, now, ticks, issued, jwt, resp, changes>>
raceVars == <<reqs>>

\* Everything of the authentication app but the last response.
accountVars == <<users, profiles, tokens, now, ticks, issued, jwt, changes>>
shopVars == <<images, data, hits>>
catalogVars == <<categories, products, inst, call, shopVars>>

\* Python's None in a nullable column or an Optional result.
None == -1

----------------------------------------------------------------------------
(* Bounds of the model *)

MaxUsers == 2
MaxTokens == 2
MaxTicks == 1
MaxCats == 3
MaxStock == 3
MaxReqs == 2
MaxRateTokens == 5
MaxProducts == 1
MaxPrice == 3

----------------------------------------------------------------------------
(* Program constants *)

DEFAULT_EXPIRY_HOURS == 24
ResendWindowMinutes == 5
ResetWindowMinutes == 15
MaxAttempts == 3
MinUsernameLen == 3
MaxUsernameLen == 30

----------------------------------------------------------------------------
(* Strings are sequences of one-character strings, so that strip(), lower() *)
(* and __iexact are computed and not assumed.                               *)

LowerChar(c) ==
    CASE c = "A" -> "a"
      [] c = "B" -> "b"
      [] c = "C" -> "c"
      [] c = "M" -> "m"
      [] c = "O" -> "o"
      [] c = "T" -> "t"
      [] c = "X" -> "x"
      [] c = "Y" -> "y"
      [] OTHER -> c

\* str.lower()
Lower(s) == [i \in 1..Len(s) |-> LowerChar(s[i])]

RECURSIVE LStrip(_)
LStrip(s) == IF s # <<>> /\ Head(s) = " " THEN LStrip(Tail(s)) ELSE s

RECURSIVE RStrip(_)
RStrip(s) ==
    IF s # <<>> /\ s[Len(s)] = " " THEN RStrip(SubSeq(s, 1, Len(s) - 1)) ELSE s

\* str.strip()
Strip(s) == RStrip(LStrip(s))

\* A case-sensitive comparison, which __iexact is not.
IExact_exact(a, b) == a = b

\* field__iexact=value
IExact(a, b) == Lower(a) = Lower(b)

\* django.core.validators.validate_email, reduced to its shape: exactly one
\* "@", with a non-empty local part before it and a non-empty domain after.
ValidEmail(e) ==
    /\ Cardinality({i \in 1..Len(e) : e[i] = "@"}) = 1
    /\ e[1] # "@"
    /\ e[Len(e)] # "@"
    /\ \A i \in 1..Len(e) : e[i] # " "

\* django.contrib.auth.password_validation.validate_password
WeakPasswords == {"123"}
StrongPassword(p) == p \notin WeakPasswords

\* User.set_password / check_password: the stored value is a hash of the
\* raw password, never the raw password.
make_password(p) == <<"pbkdf2", p>>
check_password(u, p) == users[u].password = make_password(p)

----------------------------------------------------------------------------
(* Tables *)

Restrict(f, S) == [x \in S |-> f[x]]

UserIds == DOMAIN users
TokenIds == DOMAIN tokens

\* The next auto-increment primary key of auth_user.
NewUserId == Cardinality(DOMAIN users) + 1

\* uuid.uuid4(): a token value no row ever had.
NewToken == Cardinality(DOMAIN issued) + 1

\* A token argument that does not parse as a UUID.
BadToken == -2
IsUUID(t) == t # BadToken

\* User.objects.filter(username__iexact=...), filter(email__iexact=...)
UsersByUsernameIExact(name) == {u \in UserIds : IExact(users[u].username, name)}
UsersByEmailIExact(email) == {u \in UserIds : IExact(users[u].email, email)}

\* UserProfile(user=user) with the field defaults
DefaultProfile == [email_verified |-> FALSE, email_verified_at |-> None]

\* UserProfile.objects.get_or_create(user=user): the table afterwards
get_or_create_profile(u) ==
    IF u \in DOMAIN profiles THEN profiles ELSE profiles @@ (u :> DefaultProfile)

\* A token that never expires, which a row past expires_at is not.
is_expired_never(row) == FALSE

\* EmailVerificationToken.is_expired
is_expired(row) == now > row.expires_at

\* A save that leaves a missing expiry missing.
EmailVerificationToken_save_asis(row) == row

\* EmailVerificationToken.save: the expiry defaults to now + 24 h
EmailVerificationToken_save(row) ==
    IF row.expires_at = None
    THEN [row EXCEPT !.expires_at = now + DEFAULT_EXPIRY_HOURS * 60]
    ELSE row

\* The row objects.create(user=user) inserts.
NewTokenRow(u) ==
    EmailVerificationToken_save(
        [user |-> u, created_at |-> now, expires_at |-> None,
         used |-> FALSE, used_at |-> None])

\* A create that leaves the user's earlier unused tokens in the table.
create_for_user_keeping(u) == tokens @@ (NewToken :> NewTokenRow(u))

\* EmailVerificationTokenManager.create_for_user: the table afterwards.
\* The user's unused tokens are deleted, then one row is created.
create_for_user(u) ==
    LET kept == {t \in TokenIds : ~(tokens[t].user = u /\ ~tokens[t].used)}
    IN  Restrict(tokens, kept) @@ (NewToken :> NewTokenRow(u))

\* EmailVerificationTokenManager.get_valid_token
get_valid_token(t) ==
    IF t \in TokenIds /\ ~tokens[t].used /\ ~is_expired(tokens[t])
    THEN t ELSE None

\* Rows of the user created inside the last `minutes` minutes:
\* filter(user=user, created_at__gte=now - timedelta(minutes=...)).count()
RecentTokens(u, minutes) ==
    Cardinality({t \in TokenIds :
        tokens[t].user = u /\ tokens[t].created_at >= now - minutes})

\* A step stays within a budget of n tokens issued in all.
Within(n) == Cardinality(DOMAIN issued') <= n

\* The log of committed changes after one more made on token t's authority.
Committed(t) ==
    IF t \in DOMAIN changes THEN [changes EXCEPT ![t] = @ + 1]
    ELSE changes @@ (t :> 1)

Reply(op, status, body) ==
    resp' = [op |-> op, status |-> status, body |-> body]

\* authentication.utils.send_verification_email(user): issues the user's
\* verification token and mails the link.  mail = "sent": token created and
\* mail sent (True); "send_failed": token created, sending failed (False);
\* "token_failed": nothing created (False).
send_verification_email(u, mail, via) ==
    IF mail = "token_failed"
    THEN /\ tokens' = tokens
         /\ issued' = issued
    ELSE /\ tokens' = create_for_user(u)
         /\ issued' = issued @@ (NewToken :> [user |-> u, at |-> now, via |-> via])

MailOutcomes == {"sent", "send_failed", "token_failed"}

----------------------------------------------------------------------------
(* Authentication endpoints *)

\* User.objects.create_user(..., is_active=False): the row inserted
create_user(username, email, password) ==
    [username |-> username, email |-> email,
     password |-> make_password(password),
     is_active |-> FALSE, last_login |-> None]

\* A block whose writes survive the exception that left it.
atomic_rollback_kept(before, written) == written

\* with transaction.atomic(): an exception leaving the block restores the
\* table as it was before the block, whatever was written inside it.
atomic_rollback(before, written) == before

\* POST /auth/register/
register(username_in, email_in, password, mail, fault) ==
    LET username == Strip(username_in)
        email == Lower(Strip(email_in))
        u == NewUserId
    IN
    /\ UNCHANGED <<now, ticks, jwt, changes, raceVars, catalogVars>>
    /\ IF username = <<>> \/ email = <<>> \/ password = ""
       THEN Reply("register", 400, "required")
            /\ UNCHANGED <<users, profiles, tokens, issued>>
       ELSE IF Len(username) < MinUsernameLen
       THEN Reply("register", 400, "username_short")
            /\ UNCHANGED <<users, profiles, tokens, issued>>
       ELSE IF Len(username) > MaxUsernameLen
       THEN Reply("register", 400, "username_long")
            /\ UNCHANGED <<users, profiles, tokens, issued>>
       ELSE IF ~ValidEmail(email)
       THEN Reply("register", 400, "invalid_email")
            /\ UNCHANGED <<users, profiles, tokens, issued>>
       ELSE IF UsersByUsernameIExact(username) # {}
       THEN Reply("register", 400, "username_exists")
            /\ UNCHANGED <<users, profiles, tokens, issued>>
       ELSE IF UsersByEmailIExact(email) # {}
       THEN Reply("register", 400, "email_exists")
            /\ UNCHANGED <<users, profiles, tokens, issued>>
       ELSE IF ~StrongPassword(password)
       THEN Reply("register", 400, "weak_password")
            /\ UNCHANGED <<users, profiles, tokens, issued>>
       ELSE IF fault = "integrity"
       THEN \* IntegrityError raised after the user INSERT: the block is undone
            /\ Cardinality(UserIds) < MaxUsers
            /\ users' = atomic_rollback(users, users @@ (u :> create_user(username, email, password)))
            /\ Reply("register", 400, "integrity")
            /\ UNCHANGED <<profiles, tokens, issued>>
       ELSE IF fault = "error"
       THEN \* any other exception raised after the user INSERT: the same
            /\ Cardinality(UserIds) < MaxUsers
            /\ users' = atomic_rollback(users, users @@ (u :> create_user(username, email, password)))
            /\ Reply("register", 500, "error")
            /\ UNCHANGED <<profiles, tokens, issued>>
       ELSE /\ Cardinality(UserIds) < MaxUsers
            /\ users' = users @@ (u :> create_user(username, email, password))
            /\ profiles' = profiles @@ (u :> DefaultProfile)
            /\ send_verification_email(u, mail, "register")
            /\ IF mail = "sent"
               THEN Reply("register", 201, "created")
               ELSE Reply("register", 201, "created_email_failed")

\* django.contrib.auth.authenticate with ModelBackend: the user whose
\* username matches exactly, whose password checks and who is active.
authenticate(username, password) ==
    LET m == {u \in UserIds : users[u].username = username}
    IN  IF m = {} THEN None
        ELSE LET u == CHOOSE x \in m : TRUE
             IN  IF check_password(u, password) /\ users[u].is_active
                 THEN u ELSE None

\* POST /auth/login/
login(username_in, password) ==
    LET username == Strip(username_in)
        user == authenticate(username, password)
    IN
    /\ UNCHANGED <<tokens, issued, now, ticks, changes, raceVars, catalogVars>>
    /\ IF username = <<>> \/ password = ""
       THEN Reply("login", 400, "required")
            /\ UNCHANGED <<users, profiles, jwt>>
       ELSE IF Len(username) > 150
       THEN Reply("login", 401, "invalid_credentials")
            /\ UNCHANGED <<users, profiles, jwt>>
       ELSE IF user = None
       THEN Reply("login", 401, "invalid_credentials")
            /\ UNCHANGED <<users, profiles, jwt>>
       ELSE IF ~users[user].is_active
       THEN Reply("login", 403, "deactivated")
            /\ UNCHANGED <<users, profiles, jwt>>
       ELSE /\ profiles' = get_or_create_profile(user)
            /\ IF ~profiles'[user].email_verified
               THEN Reply("login", 403, "email_verification_required")
                    /\ UNCHANGED <<users, jwt>>
               ELSE /\ jwt' = jwt \cup {user}
                    /\ users' = [users EXCEPT ![user].last_login = now]
                    /\ Reply("login", 200, "login_successful")

\* A verify_email that never takes the already-verified branch.
verify_email_outcome_unchecked(t) ==
    IF ~IsUUID(t) THEN "invalid_format"
    ELSE IF ~(t \in TokenIds /\ ~tokens[t].used) THEN "invalid"
    ELSE IF is_expired(tokens[t]) THEN "expired"
    ELSE "verify"

\* Which branch of verify_email a request with this token takes.
verify_email_outcome(t) ==
    IF ~IsUUID(t) THEN "invalid_format"
    ELSE IF ~(t \in TokenIds /\ ~tokens[t].used) THEN "invalid"
    ELSE IF is_expired(tokens[t]) THEN "expired"
    ELSE IF get_or_create_profile(tokens[t].user)[tokens[t].user].email_verified
    THEN "already_verified"
    ELSE "verify"

\* The status code verify_email answers with when nothing fails underneath.
verify_email_status(t) ==
    IF verify_email_outcome(t) \in {"invalid_format", "invalid", "expired"}
    THEN 400 ELSE 200

\* A profile write that stamps the time and leaves the flag as it was.
verify_profile_write_stamp_only(P, u) == [P EXCEPT ![u].email_verified_at = now]

\* A profile write that sets the flag and not its timestamp.
verify_profile_write_flag_only(P, u) == [P EXCEPT ![u].email_verified = TRUE]

\* The token table had verify_email not written the token.
verify_token_write_skipped(t) == tokens

\* The three writes of verify_email's transaction.atomic() block.
verify_profile_write(P, u) ==
    [P EXCEPT ![u] = [email_verified |-> TRUE, email_verified_at |-> now]]
verify_user_write(u) == [users EXCEPT ![u].is_active = TRUE]
verify_token_write(t) == [tokens EXCEPT ![t].used = TRUE]

\* GET /auth/verify-email/<token>/
verify_email(t, fault) ==
    LET outcome == verify_email_outcome(t)
        u == tokens[t].user
    IN
    /\ UNCHANGED <<issued, now, ticks, jwt, raceVars, catalogVars>>
    /\ IF outcome \in {"invalid_format", "invalid", "expired"}
       THEN /\ Reply("verify_email", 400, outcome)
            /\ UNCHANGED <<users, profiles, tokens, changes>>
       ELSE IF outcome = "already_verified"
       THEN /\ profiles' = get_or_create_profile(u)
            /\ Reply("verify_email", 200, "already_verified")
            /\ UNCHANGED <<users, tokens, changes>>
       ELSE IF fault = "integrity"
       THEN \* IntegrityError inside the atomic block: all three rolled back
            /\ profiles' = get_or_create_profile(u)
            /\ Reply("verify_email", 500, "unable_to_complete")
            /\ UNCHANGED <<users, tokens, changes>>
       ELSE /\ profiles' = verify_profile_write(get_or_create_profile(u), u)
            /\ users' = verify_user_write(u)
            /\ tokens' = verify_token_write(t)
            /\ changes' = Committed(t)
            /\ Reply("verify_email", 200, "verified")

\* A response that tells whether any account exists, which the standard
\* response does not.
standard_response_telling(op) ==
    Reply(op, IF UserIds = {} THEN 404 ELSE 200, "standard_response")

\* The one response body both anti-enumeration endpoints answer with.
standard_response(op) == Reply(op, 200, "standard_response")

\* POST /auth/resend-verification/
resend_verification_email(email_in, mail) ==
    LET email == Lower(Strip(email_in))
        m == UsersByEmailIExact(email)
        user == CHOOSE x \in m : TRUE
        op == "resend_verification_email"
    IN
    /\ UNCHANGED <<users, now, ticks, jwt, changes, raceVars, catalogVars>>
    /\ IF email = <<>>
       THEN Reply(op, 400, "required") /\ UNCHANGED <<profiles, tokens, issued>>
       ELSE IF ~ValidEmail(email)
       THEN Reply(op, 400, "invalid_email") /\ UNCHANGED <<profiles, tokens, issued>>
       ELSE IF m = {}
       THEN standard_response(op) /\ UNCHANGED <<profiles, tokens, issued>>
       ELSE IF Cardinality(m) > 1
       THEN \* User.objects.get raises MultipleObjectsReturned
            Reply(op, 500, "error") /\ UNCHANGED <<profiles, tokens, issued>>
       ELSE /\ profiles' = get_or_create_profile(user)
            /\ IF profiles'[user].email_verified
               THEN standard_response(op) /\ UNCHANGED <<tokens, issued>>
               ELSE IF RecentTokens(user, ResendWindowMinutes) >= MaxAttempts
               THEN standard_response(op) /\ UNCHANGED <<tokens, issued>>
               ELSE /\ LET swept == Restrict(tokens, {t \in TokenIds :
                               ~(/\ tokens[t].user = user
                                 /\ ~tokens[t].used
                                 /\ tokens[t].expires_at < now)})
                       IN  IF mail = "token_failed"
                           THEN tokens' = swept /\ issued' = issued
                           ELSE send_verification_email(user, mail, "resend")
                    /\ standard_response(op)

\* POST /auth/password-reset/
request_password_reset(email_in) ==
    LET email == Lower(Strip(email_in))
        m == UsersByEmailIExact(email)
        user == CHOOSE x \in m : TRUE
        op == "request_password_reset"
    IN
    /\ UNCHANGED <<users, profiles, now, ticks, jwt, changes, raceVars, catalogVars>>
    /\ IF email = <<>>
       THEN Reply(op, 400, "required") /\ UNCHANGED <<tokens, issued>>
       ELSE IF ~ValidEmail(email)
       THEN Reply(op, 400, "invalid_email") /\ UNCHANGED <<tokens, issued>>
       ELSE IF m = {}
       THEN standard_response(op) /\ UNCHANGED <<tokens, issued>>
       ELSE IF Cardinality(m) > 1
       THEN Reply(op, 500, "error") /\ UNCHANGED <<tokens, issued>>
       ELSE IF ~users[user].is_active
       THEN standard_response(op) /\ UNCHANGED <<tokens, issued>>
       ELSE IF RecentTokens(user, ResetWindowMinutes) >= MaxAttempts
       THEN standard_response(op) /\ UNCHANGED <<tokens, issued>>
       ELSE /\ tokens' = create_for_user(user)
            /\ issued' = issued @@ (NewToken :> [user |-> user, at |-> now, via |-> "reset"])
            /\ standard_response(op)

\* A mark_as_used that records the time and forgets the flag.
mark_as_used_unflagged(t) == [tokens EXCEPT ![t].used_at = now]

\* EmailVerificationToken.mark_as_used
mark_as_used(t) == [tokens EXCEPT ![t].used = TRUE, ![t].used_at = now]

\* POST /auth/password-reset/confirm/<token>/
confirm_password_reset(t, new_password, confirm_password, fault) ==
    LET op == "confirm_password_reset"
        reset_token == IF IsUUID(t) THEN get_valid_token(t) ELSE None
        user == tokens[reset_token].user
    IN
    /\ UNCHANGED <<profiles, issued, now, ticks, jwt, raceVars, catalogVars>>
    /\ IF new_password = "" \/ confirm_password = ""
       THEN Reply(op, 400, "required") /\ UNCHANGED <<users, tokens, changes>>
       ELSE IF new_password # confirm_password
       THEN Reply(op, 400, "mismatch") /\ UNCHANGED <<users, tokens, changes>>
       ELSE IF ~IsUUID(t)
       THEN Reply(op, 400, "invalid_format") /\ UNCHANGED <<users, tokens, changes>>
       ELSE IF reset_token = None
       THEN Reply(op, 400, "invalid") /\ UNCHANGED <<users, tokens, changes>>
       ELSE IF ~StrongPassword(new_password)
       THEN Reply(op, 400, "weak_password") /\ UNCHANGED <<users, tokens, changes>>
       ELSE IF check_password(user, new_password)
       THEN Reply(op, 400, "same_password") /\ UNCHANGED <<users, tokens, changes>>
       ELSE IF fault = "error"
       THEN \* an exception inside the atomic block: both writes are undone
            /\ users' = atomic_rollback(users,
                   [users EXCEPT ![user].password = make_password(new_password)])
            /\ Reply(op, 500, "error")
            /\ UNCHANGED <<tokens, changes>>
       ELSE /\ users' = [users EXCEPT ![user].password = make_password(new_password)]
            /\ tokens' = mark_as_used(t)
            /\ changes' = Committed(t)
            /\ Reply(op, 200, "password_reset")

\* Time passes between requests: long enough for a token to expire, or no
\* longer than the shorter rate-limit window.
PastExpiry == DEFAULT_EXPIRY_HOURS * 60 + 1
InsideWindow == ResendWindowMinutes

Tick(d) ==
    /\ ticks < MaxTicks
    /\ now' = now + d
    /\ ticks' = ticks + 1
    /\ UNCHANGED <<users, profiles, tokens, issued, jwt, resp, changes,
                   raceVars, catalogVars>>

----------------------------------------------------------------------------
(* Request inputs *)

bob == <<"b", "o", "b">>
amy == <<"a", "m", "y">>
bob_mail == <<"b", "@", "x">>
amy_mail == <<"a", "@", "x">>

UsernameInputs ==
    {bob, <<"B", "o", "b">>, <<" ", "b", "o", "b">>, amy, <<"a", "l">>,
     [i \in 1..(MaxUsernameLen + 1) |-> "a"]}
EmailInputs == {bob_mail, <<"B", "@", "X", " ">>, amy_mail, <<"b", "x">>}
PasswordInputs == {"pw1", "123", ""}

\* What can go wrong inside register's atomic block: (mail, fault).
RegisterOutcomes ==
    {<<"sent", "none">>, <<"send_failed", "none">>,
     <<"sent", "integrity">>, <<"sent", "error">>}

\* Well-formed (username, email) pairs: two identities, and the spellings of
\* them that differ in case or surrounding blanks.
RegisterPairs ==
    {<<bob, bob_mail>>, <<amy, amy_mail>>, <<amy, bob_mail>>,
     <<<<"B", "o", "b">>, amy_mail>>, <<<<" ", "b", "o", "b">>, amy_mail>>,
     <<amy, <<"B", "@", "X", " ">>>>}

\* Register requests <<username, email, password, mail, fault>>: the
\* well-formed pairs under every outcome, and one request for each way of
\* being malformed.
RegisterRequests ==
    {<<i[1], i[2], "pw1", o[1], o[2]>> : i \in RegisterPairs, o \in RegisterOutcomes}
    \cup {<<<<"a", "l">>, amy_mail, "pw1", "sent", "none">>,
          <<[i \in 1..(MaxUsernameLen + 1) |-> "a"], amy_mail, "pw1", "sent", "none">>,
          <<amy, <<"b", "x">>, "pw1", "sent", "none">>,
          <<amy, amy_mail, "123", "sent", "none">>,
          <<amy, amy_mail, "", "sent", "none">>}

----------------------------------------------------------------------------
(* The authentication app, one request at a time *)

NoResponse == [op |-> "none", status |-> 0, body |-> "none"]

InitAuth ==
    /\ users = <<>>
    /\ profiles = <<>>
    /\ tokens = <<>>
    /\ now = 0
    /\ ticks = 0
    /\ issued = <<>>
    /\ jwt = {}
    /\ resp = NoResponse
    /\ changes = <<>>

InitRace == reqs = <<>>

NoData == [pk |-> None, price |-> None, compare_at_price |-> None,
           view_count |-> None, discount_percentage |-> None]

InitCatalog ==
    /\ categories = <<>>
    /\ products = <<>>
    /\ inst = <<>>
    /\ call = [op |-> "none", before |-> 0, quantity |-> 0, result |-> FALSE]
    /\ images = <<>>
    /\ data = NoData
    /\ hits = <<>>

Init == InitAuth /\ InitRace /\ InitCatalog

\* The accounts the create_sample_data command makes.
SampleAccounts ==
    <<[username |-> bob, email |-> bob_mail],
      [username |-> amy, email |-> amy_mail],
      [username |-> <<"m", "a", "x">>, email |-> <<"m", "@", "x">>]>>

SampleIds == 1..(IF MaxUsers < Len(SampleAccounts) THEN MaxUsers ELSE Len(SampleAccounts))

\* The database after create_sample_data on an empty one: active users with
\* a password, a profile each, every other profile verified, and a token for
\* each of the first two users.
InitSample ==
    /\ users = [u \in SampleIds |->
                  [username |-> SampleAccounts[u].username,
                   email |-> SampleAccounts[u].email,
                   password |-> make_password("testpass123"),
                   is_active |-> TRUE, last_login |-> None]]
    /\ profiles = [u \in SampleIds |->
                     IF (u - 1) % 2 = 0
                     THEN [email_verified |-> TRUE, email_verified_at |-> 0]
                     ELSE DefaultProfile]
    /\ tokens = [t \in {u \in SampleIds : u <= 2} |->
                   [user |-> t, created_at |-> 0,
                    expires_at |-> DEFAULT_EXPIRY_HOURS * 60,
                    used |-> FALSE, used_at |-> None]]
    /\ now = 0
    /\ ticks = 0
    /\ issued = [t \in {u \in SampleIds : u <= 2} |->
                   [user |-> t, at |-> 0, via |-> "sample"]]
    /\ jwt = {}
    /\ resp = NoResponse
    /\ changes = <<>>

InitShop == InitSample /\ InitRace /\ InitCatalog

\* Token arguments: every token ever issued, a UUID no row has, a non-UUID.
TokenArgs == DOMAIN issued \cup {0, BadToken}

EmailArgs == EmailInputs

\* One account through its whole life: registration, verification, resends,
\* password resets, logins, with time passing.
Next ==
    \/ \E mail \in MailOutcomes :
          register(bob, bob_mail, "pw1", mail, "none") /\ Within(MaxTokens)
    \/ \E p \in {"pw1", "pw2"} : login(bob, p)
    \/ \E t \in TokenArgs, fault \in {"none", "integrity"} : verify_email(t, fault)
    \/ \E e \in EmailArgs, mail \in {"sent", "token_failed"} :
          resend_verification_email(e, mail) /\ Within(MaxTokens)
    \/ \E e \in EmailArgs : request_password_reset(e) /\ Within(MaxTokens)
    \/ \E t \in TokenArgs, p \in {"pw1", "pw2"} :
          confirm_password_reset(t, p, p, "none")
    \/ Tick(PastExpiry)

Spec == Init /\ [][Next]_vars

----------------------------------------------------------------------------
(* Repeated token requests for one account (the rate limits) *)

RateEmails == {bob_mail, amy_mail}

NextRate ==
    \/ register(bob, bob_mail, "pw1", "sent", "none") /\ Within(MaxRateTokens)
    \/ \E t \in DOMAIN issued : verify_email(t, "none")
    \/ \E e \in RateEmails, mail \in MailOutcomes :
          resend_verification_email(e, mail) /\ Within(MaxRateTokens)
    \/ \E e \in RateEmails : request_password_reset(e) /\ Within(MaxRateTokens)
    \/ \E t \in DOMAIN issued : confirm_password_reset(t, "pw2", "pw2", "none")
    \/ Tick(InsideWindow)

SpecRate == Init /\ [][NextRate]_vars

----------------------------------------------------------------------------
(* Two accounts and every shape of input, at one instant *)

NextInput ==
    \/ \E r \in RegisterRequests :
          register(r[1], r[2], r[3], r[4], r[5]) /\ Within(MaxUsers)
    \/ \E t \in DOMAIN issued : verify_email(t, "none")
    \/ \E n \in UsernameInputs, p \in PasswordInputs : login(n, p)

SpecInput == Init /\ [][NextInput]_vars

----------------------------------------------------------------------------
(* Interleaved requests.  A handler reads its rows first (the ORM get and   *)
(* the checks on the loaded objects) and writes them later, inside its      *)
(* transaction.atomic() block; another request may run in between.          *)

\* verify_email up to the atomic block: the token, user and profile objects
\* are loaded and have passed every check.
verify_email_load(r, t) ==
    /\ r \notin DOMAIN reqs
    /\ verify_email_outcome(t) = "verify"
    /\ reqs' = reqs @@ (r :> [op |-> "verify_email", token |-> t,
                              user |-> tokens[t].user, password |-> ""])
    /\ UNCHANGED <<authVars, catalogVars>>

\* verify_email's atomic block, on the objects loaded before.
verify_email_commit(r) ==
    /\ r \in DOMAIN reqs
    /\ reqs[r].op = "verify_email"
    /\ LET t == reqs[r].token
           u == reqs[r].user
       IN  /\ profiles' = verify_profile_write(profiles, u)
           /\ users' = verify_user_write(u)
           /\ tokens' = verify_token_write(t)
           /\ changes' = Committed(t)
           /\ Reply("verify_email", 200, "verified")
    /\ reqs' = Restrict(reqs, DOMAIN reqs \ {r})
    /\ UNCHANGED <<issued, now, ticks, jwt, catalogVars>>

\* confirm_password_reset up to the atomic block.
confirm_password_reset_load(r, t, new_password) ==
    /\ r \notin DOMAIN reqs
    /\ IsUUID(t)
    /\ get_valid_token(t) # None
    /\ StrongPassword(new_password)
    /\ ~check_password(tokens[t].user, new_password)
    /\ reqs' = reqs @@ (r :> [op |-> "confirm_password_reset", token |-> t,
                              user |-> tokens[t].user, password |-> new_password])
    /\ UNCHANGED <<authVars, catalogVars>>

\* confirm_password_reset's atomic block, on the objects loaded before.
confirm_password_reset_commit(r) ==
    /\ r \in DOMAIN reqs
    /\ reqs[r].op = "confirm_password_reset"
    /\ LET t == reqs[r].token
           u == reqs[r].user
       IN  /\ users' = [users EXCEPT ![u].password = make_password(reqs[r].password)]
           /\ tokens' = mark_as_used(t)
           /\ changes' = Committed(t)
           /\ Reply("confirm_password_reset", 200, "password_reset")
    /\ reqs' = Restrict(reqs, DOMAIN reqs \ {r})
    /\ UNCHANGED <<profiles, issued, now, ticks, jwt, catalogVars>>

NextRace ==
    \/ register(bob, bob_mail, "pw1", "sent", "none") /\ Within(MaxTokens)
    \/ request_password_reset(bob_mail) /\ Within(MaxTokens)
    \/ \E r \in 1..MaxReqs, t \in DOMAIN issued : verify_email_load(r, t)
    \/ \E r \in 1..MaxReqs : verify_email_commit(r)
    \/ \E r \in 1..MaxReqs, t \in DOMAIN issued, p \in {"pw1", "pw2"} :
          confirm_password_reset_load(r, t, p)
    \/ \E r \in 1..MaxReqs : confirm_password_reset_commit(r)

SpecRace == Init /\ [][NextRace]_vars

----------------------------------------------------------------------------
(* Products: stock bookkeeping on loaded instances *)

\* Request users: JWT authentication admits existing, active users.
Authenticated(user) == user \in UserIds /\ users[user].is_active

\* The next auto-increment primary key of the product table.
NewProductId == Cardinality(DOMAIN hits) + 1

\* Prices are whole numbers of the smallest unit; a nullable price is None.
Prices == 1..MaxPrice

\* The field validators of the fields a product request carries:
\* MinValueValidator(0.01) on price and compare_at_price, (0.00) on
\* cost_price, PositiveIntegerField for stock_quantity.
ProductFieldsValid(req) ==
    /\ req.price >= 1
    /\ req.compare_at_price = None \/ req.compare_at_price >= 1
    /\ req.cost_price = None \/ req.cost_price >= 0
    /\ req.stock_quantity >= 0

\* ProductCreateSerializer: what it checks across the fields of a request
\* before the row is inserted.  It has no validate method, and
\* Product.objects.create does not run Product.clean.
ProductCreateSerializer_validate(req) == ProductFieldsValid(req)

\* The characters slugify keeps (letters, digits, underscore, blank,
\* hyphen), of those names are written with here.
SlugChars == {"a", "b", "c", "e", "m", "o", "p", "t", "x", "y", "_", " ", "-"}

\* re.sub(r"[^\w\s-]", "", value.lower())
RECURSIVE SlugKeep(_)
SlugKeep(s) ==
    IF s = <<>> THEN <<>>
    ELSE IF LowerChar(Head(s)) \in SlugChars
         THEN <<LowerChar(Head(s))>> \o SlugKeep(Tail(s))
         ELSE SlugKeep(Tail(s))

\* re.sub(r"[-\s]+", "-", value): each run of blanks and hyphens becomes
\* one hyphen.
RECURSIVE SlugJoin(_)
SlugJoin(s) ==
    IF s = <<>> THEN <<>>
    ELSE IF Head(s) \in {" ", "-"}
         THEN IF Tail(s) # <<>> /\ Head(Tail(s)) \in {" ", "-"}
              THEN SlugJoin(Tail(s))
              ELSE <<"-">> \o SlugJoin(Tail(s))
         ELSE <<Head(s)>> \o SlugJoin(Tail(s))

\* .strip("-_")
RECURSIVE SlugStrip(_)
SlugStrip(s) ==
    IF s # <<>> /\ Head(s) \in {"-", "_"} THEN SlugStrip(Tail(s))
    ELSE IF s # <<>> /\ s[Len(s)] \in {"-", "_"} THEN SlugStrip(SubSeq(s, 1, Len(s) - 1))
    ELSE s

\* django.utils.text.slugify
slugify(name) == SlugStrip(SlugJoin(SlugKeep(name)))

\* A name no stored product has: what a request stands for that is not
\* about names.
FreshName == [i \in 1..NewProductId |-> "p"]

\* The name a create request carries.
RequestName(req) == IF "name" \in DOMAIN req THEN req.name ELSE FreshName

\* f"PRD-{uuid.uuid4().hex[:8].upper()}": eight random hex digits, taken
\* here as a value no earlier product was given.
NewSku == <<"PRD", NewProductId>>

\* A save that stamps every save of an active product.
published_at_on_every_save(self) ==
    IF self.status = "active" THEN now ELSE self.published_at

\* Product.save: published_at is set when the product is active and has
\* none.
published_at_on_save(self) ==
    IF self.status = "active" /\ self.published_at = None
    THEN now ELSE self.published_at

\* Product.save before super().save(): slug, SKU and published_at are
\* filled in when they are empty.
Product_save(self) ==
    [self EXCEPT
        !.slug = IF @ = <<>> THEN slugify(self.name) ELSE @,
        !.sku = IF @ = <<>> THEN NewSku ELSE @,
        !.published_at = published_at_on_save(self)]

\* unique=True on slug and sku: TRUE when another row holds the slug or
\* the SKU of this one, and the INSERT or UPDATE raises IntegrityError.
UniqueViolated(pk, self) ==
    \E q \in DOMAIN products \ {pk} :
        products[q].slug = self.slug \/ products[q].sku = self.sku

\* Product.low_stock_threshold: default=5
DefaultLowStockThreshold == 5

\* validated_data.get(name, the model field's default)
RequestField(req, name, default) ==
    IF name \in DOMAIN req THEN req[name] ELSE default

\* The instance ProductCreateSerializer.create builds for a request:
\* Product(**validated_data), slug and sku blank.
ProductRow(user, req) ==
    [owner |-> user, name |-> RequestName(req), slug |-> <<>>, sku |-> <<>>,
     price |-> req.price,
     compare_at_price |-> req.compare_at_price, cost_price |-> req.cost_price,
     track_inventory |-> req.track_inventory,
     stock_quantity |-> req.stock_quantity,
     low_stock_threshold |->
         RequestField(req, "low_stock_threshold", DefaultLowStockThreshold),
     allow_backorder |-> RequestField(req, "allow_backorder", FALSE),
     status |-> req.status, view_count |-> 0, published_at |-> None]

\* A discount rounded to the nearest whole percent.
discount_percentage_rounded(price, compare_at_price) ==
    IF compare_at_price # None /\ compare_at_price > price
    THEN (2 * (compare_at_price - price) * 100 + compare_at_price)
             \div (2 * compare_at_price)
    ELSE None

\* Product.discount_percentage: int() drops the fraction of the percentage.
discount_percentage(price, compare_at_price) ==
    IF compare_at_price # None /\ compare_at_price # 0 /\ compare_at_price > price
    THEN ((compare_at_price - price) * 100) \div compare_at_price
    ELSE None

\* ProductDetailSerializer(instance).data: the fields followed here.
ProductDetailSerializer_data(pk, row) ==
    [pk |-> pk, price |-> row.price, compare_at_price |-> row.compare_at_price,
     view_count |-> row.view_count,
     discount_percentage |-> discount_percentage(row.price, row.compare_at_price)]

\* POST /products/products/ : ProductViewSet.create
product_create(user, req) ==
    /\ Authenticated(user)
    /\ LET instance == Product_save(ProductRow(user, req))
       IN  IF ~ProductCreateSerializer_validate(req)
           THEN /\ Reply("product_create", 400, "invalid")
                /\ UNCHANGED <<products, hits, data>>
           ELSE IF UniqueViolated(NewProductId, instance)
           THEN \* IntegrityError leaves the view unhandled
                /\ Reply("product_create", 500, "error")
                /\ UNCHANGED <<products, hits, data>>
           ELSE /\ products' = products @@ (NewProductId :> instance)
                /\ hits' = hits @@ (NewProductId :> 0)
                /\ data' = ProductDetailSerializer_data(NewProductId, instance)
                /\ Reply("product_create", 201, "created")
    /\ UNCHANGED <<accountVars, raceVars, categories, inst, call, images>>

\* A request that sets the stock fields and leaves the rest at plain values.
StockRequest(track_inventory, stock_quantity) ==
    [price |-> 1, compare_at_price |-> None, cost_price |-> None,
     track_inventory |-> track_inventory, stock_quantity |-> stock_quantity,
     status |-> "draft"]

\* Product.objects.get(...): worker w holds an in-memory copy of the row.
product_get(w, p) ==
    /\ p \in DOMAIN products
    /\ inst' = [x \in DOMAIN inst \cup {w} |->
                   IF x = w THEN [pk |-> p] @@ products[p] ELSE inst[x]]
    /\ UNCHANGED <<authVars, raceVars, categories, products, call, shopVars>>

\* self.save(update_fields=["stock_quantity"]): the row afterwards
save_stock_quantity(pk, stock_quantity) ==
    [products EXCEPT ![pk].stock_quantity = stock_quantity]

\* What reduce_stock returns for an instance and a quantity.
reduce_stock_result(self, quantity) ==
    IF ~self.track_inventory THEN TRUE
    ELSE self.stock_quantity >= quantity

\* A decrement without the stock check.
reduce_stock_quantity_unchecked(self, quantity) == self.stock_quantity - quantity

\* self.stock_quantity after reduce_stock
reduce_stock_quantity(self, quantity) ==
    IF self.track_inventory /\ self.stock_quantity >= quantity
    THEN self.stock_quantity - quantity
    ELSE self.stock_quantity

\* Product.reduce_stock(quantity) on the instance worker w holds
reduce_stock(w, quantity) ==
    /\ w \in DOMAIN inst
    /\ LET self == inst[w]
           left == reduce_stock_quantity(self, quantity)
           saved == self.track_inventory /\ self.stock_quantity >= quantity
       IN  /\ inst' = [inst EXCEPT ![w].stock_quantity = left]
           /\ products' = IF saved THEN save_stock_quantity(self.pk, left)
                          ELSE products
           /\ call' = [op |-> "reduce_stock", before |-> self.stock_quantity,
                       quantity |-> quantity,
                       result |-> reduce_stock_result(self, quantity)]
    /\ UNCHANGED <<authVars, raceVars, categories, shopVars>>

\* Product.increase_stock(quantity) on the instance worker w holds
increase_stock(w, quantity) ==
    /\ w \in DOMAIN inst
    /\ LET self == inst[w]
           more == IF self.track_inventory
                   THEN self.stock_quantity + quantity ELSE self.stock_quantity
       IN  /\ more <= MaxStock
           /\ inst' = [inst EXCEPT ![w].stock_quantity = more]
           /\ products' = IF self.track_inventory
                          THEN save_stock_quantity(self.pk, more) ELSE products
           /\ call' = [op |-> "increase_stock", before |-> self.stock_quantity,
                       quantity |-> quantity, result |-> TRUE]
    /\ UNCHANGED <<authVars, raceVars, categories, shopVars>>

Workers == {1, 2}

NextStock ==
    \/ /\ NewProductId <= MaxProducts
       /\ \E tr \in BOOLEAN, q \in 0..MaxStock : product_create(1, StockRequest(tr, q))
    \/ \E w \in Workers, p \in DOMAIN products : product_get(w, p)
    \/ \E w \in Workers, q \in 0..(MaxStock + 1) : reduce_stock(w, q)
    \/ \E w \in Workers, q \in 0..MaxStock : increase_stock(w, q)

SpecStock == InitShop /\ [][NextStock]_vars

----------------------------------------------------------------------------
(* Categories: the parent tree *)

CategoryIds == DOMAIN categories

\* The values the serializer's and the admin form's parent field accepts:
\* null or the primary key of an existing category.
ParentChoices == CategoryIds \cup {None}

\* Category.clean on an instance with primary key `self` (None while unsaved)
\* and the given parent: "ValidationError", "ok", or "diverges" when the walk
\* up the ancestors never reaches a root nor self.
RECURSIVE clean_walk(_, _, _)
clean_walk(current, self, fuel) ==
    IF current = None THEN "ok"
    ELSE IF current = self THEN "ValidationError"
    ELSE IF fuel = 0 THEN "diverges"
    ELSE clean_walk(categories[current].parent, self, fuel - 1)

Category_clean(self, parent) ==
    IF parent # None /\ parent = self THEN "ValidationError"
    ELSE clean_walk(parent, self, Cardinality(CategoryIds))

\* What CategorySerializer does to validate the parent relation of the
\* instance it is about to save: nothing (ModelSerializer.is_valid runs the
\* field validators only; neither it nor Model.save calls Model.clean).
CategorySerializer_validate(self, parent) == "ok"

\* POST /products/categories/
category_create(parent) ==
    /\ Cardinality(CategoryIds) < MaxCats
    /\ parent \in ParentChoices
    /\ IF CategorySerializer_validate(None, parent) = "ok"
       THEN /\ categories' = categories @@ ((Cardinality(CategoryIds) + 1) :>
                   [parent |-> parent, is_active |-> TRUE])
            /\ call' = [op |-> "category_create", before |-> 0,
                        quantity |-> 0, result |-> TRUE]
       ELSE /\ categories' = categories
            /\ call' = [op |-> "category_create", before |-> 0,
                        quantity |-> 0, result |-> FALSE]
    /\ UNCHANGED <<authVars, raceVars, products, inst, shopVars>>

\* PUT/PATCH /products/categories/<slug>/ : the viewset's queryset holds the
\* active categories only.
category_update(c, parent, is_active) ==
    /\ c \in CategoryIds
    /\ categories[c].is_active
    /\ parent \in ParentChoices
    /\ IF CategorySerializer_validate(c, parent) = "ok"
       THEN /\ categories' = [categories EXCEPT
                   ![c] = [parent |-> parent, is_active |-> is_active]]
            /\ call' = [op |-> "category_update", before |-> 0,
                        quantity |-> 0, result |-> TRUE]
       ELSE /\ categories' = categories
            /\ call' = [op |-> "category_update", before |-> 0,
                        quantity |-> 0, result |-> FALSE]
    /\ UNCHANGED <<authVars, raceVars, products, inst, shopVars>>

\* The admin change form: ModelForm validation runs full_clean, hence
\* Category.clean, before the row is saved.
category_admin_save(c, parent) ==
    /\ c \in CategoryIds
    /\ parent \in ParentChoices
    /\ Category_clean(c, parent) # "diverges"
    /\ IF Category_clean(c, parent) = "ok"
       THEN /\ categories' = [categories EXCEPT ![c].parent = parent]
            /\ call' = [op |-> "category_admin_save", before |-> 0,
                        quantity |-> 0, result |-> TRUE]
       ELSE /\ categories' = categories
            /\ call' = [op |-> "category_admin_save", before |-> 0,
                        quantity |-> 0, result |-> FALSE]
    /\ UNCHANGED <<authVars, raceVars, products, inst, shopVars>>

NextCategory ==
    \/ \E parent \in ParentChoices : category_create(parent)
    \/ \E c \in CategoryIds, parent \in ParentChoices, a \in BOOLEAN :
          category_update(c, parent, a)
    \/ \E c \in CategoryIds, parent \in ParentChoices : category_admin_save(c, parent)

SpecCategory == Init /\ [][NextCategory]_vars

----------------------------------------------------------------------------
(* Properties of verify_email *)

VerifyFaults == {"none", "integrity"}

----------------------------------------------------------------------------
(* Properties of the token endpoints *)

\* C3: each token is consumed exactly once: whatever the interleaving of
\* verify_email and confirm_password_reset requests presenting one token, at
\* most one of them commits the change the token authorises.
C3_ConsumedOnce ==
    \A t \in DOMAIN changes : changes[t] <= 1

\* C4: request_password_reset creates at most 3 tokens for one user within
\* any 15-minute window.
C4_ResetAtMostThreePerWindow ==
    \A t0 \in DOMAIN issued :
        issued[t0].via = "reset" =>
            Cardinality({t \in DOMAIN issued :
                /\ issued[t].via = "reset"
                /\ issued[t].user = issued[t0].user
                /\ issued[t].at >= issued[t0].at
                /\ issued[t].at < issued[t0].at + ResetWindowMinutes}) <= MaxAttempts

\* C5: for a well-formed email, resend_verification_email answers with one
\* status and body, and request_password_reset with one status and body,
\* whatever the database holds: no user of that email, a verified or an
\* unverified one, an active or an inactive one, rate-limited or not.
C5_UniformResponse ==
    [][ \A e \in RateEmails :
            ValidEmail(Lower(Strip(e))) =>
                /\ (\E mail \in MailOutcomes : resend_verification_email(e, mail)) =>
                       resp' = [op |-> "resend_verification_email",
                                status |-> 200, body |-> "standard_response"]
                /\ request_password_reset(e) =>
                       resp' = [op |-> "request_password_reset",
                                status |-> 200, body |-> "standard_response"]
      ]_vars

\* A password reset was requested for an account that had used up its three
\* attempts, and was answered like any other.
C5_Witness ==
    /\ resp = [op |-> "request_password_reset", status |-> 200,
               body |-> "standard_response"]
    /\ \E u \in UserIds :
          /\ users[u].is_active
          /\ Cardinality({t \in TokenIds : tokens[t].user = u
                            /\ tokens[t].created_at >= now - ResetWindowMinutes})
                >= MaxAttempts

----------------------------------------------------------------------------
(* Properties of register and login *)

\* C6: a register request whose username or email equals, ignoring case, the
\* username or email of an existing user answers 400 and creates no user, no
\* profile and no token.
C6_DuplicateRejected ==
    [][ \A r \in RegisterRequests :
            (/\ register(r[1], r[2], r[3], r[4], r[5])
             /\ \E u \in UserIds :
                   \/ Lower(users[u].username) = Lower(Strip(r[1]))
                   \/ Lower(users[u].email) = Lower(Strip(r[2]))) =>
                /\ resp'.status = 400
                /\ users' = users
                /\ profiles' = profiles
                /\ tokens' = tokens
                /\ issued' = issued
      ]_vars

\* A registration was refused for a taken username while a user exists.
C6_Witness ==
    /\ resp = [op |-> "register", status |-> 400, body |-> "username_exists"]
    /\ UserIds # {}

\* C7: login issues a JWT pair and updates last_login only for an active
\* user with a verified profile; correct credentials for an inactive or
\* unverified account are answered 403 and no token is issued.
C7_LoginGate ==
    [][ \A p \in {"pw1", "pw2"} :
            login(bob, p) =>
                /\ \A u \in UserIds :
                      (u \notin jwt /\ u \in jwt') =>
                          /\ users[u].is_active
                          /\ u \in DOMAIN profiles
                          /\ profiles[u].email_verified
                /\ \A u \in UserIds :
                      (/\ users[u].username = bob
                       /\ users[u].password = make_password(p)
                       /\ \/ ~users[u].is_active
                          \/ u \notin DOMAIN profiles
                          \/ ~profiles[u].email_verified) =>
                          /\ resp'.status = 403
                          /\ jwt' = jwt
      ]_vars

\* C8: register creates the user (inactive) and its profile (unverified)
\* together or not at all, and when the verification email is not sent the
\* response is still 201 with both rows in place.
C8_UserAndProfileTogether ==
    [][ \A r \in RegisterRequests :
            register(r[1], r[2], r[3], r[4], r[5]) =>
                /\ DOMAIN users' \ DOMAIN users = DOMAIN profiles' \ DOMAIN profiles
                /\ \A u \in DOMAIN users' \ DOMAIN users :
                      ~users'[u].is_active /\ ~profiles'[u].email_verified
                /\ (r[4] # "sent" /\ r[5] = "none" /\ resp'.status # 400) =>
                      /\ resp'.status = 201
                      /\ DOMAIN users' \ DOMAIN users = {NewUserId}
                      /\ DOMAIN profiles' \ DOMAIN profiles = {NewUserId}
      ]_vars

\* A registration whose verification email failed left its user and profile.
C8_Witness ==
    /\ resp = [op |-> "register", status |-> 201, body |-> "created_email_failed"]
    /\ UserIds # {}
    /\ DOMAIN users = DOMAIN profiles

----------------------------------------------------------------------------
(* Properties of the catalog *)

StockArgs == 0..(MaxStock + 1)

\* C9: on a product that tracks inventory, reduce_stock(q) returns False and
\* leaves stock_quantity unchanged whenever q > stock_quantity, and otherwise
\* returns True and decreases stock_quantity by exactly q, in the instance
\* and in its saved row; on a product that does not track inventory it
\* returns True for every q and changes nothing.
C9_ReduceStock ==
    [][ \A w \in Workers, q \in StockArgs :
            reduce_stock(w, q) =>
                LET self == inst[w]
                IN  IF ~self.track_inventory
                    THEN /\ call'.result = TRUE
                         /\ inst' = inst
                         /\ products' = products
                    ELSE IF q > self.stock_quantity
                    THEN /\ call'.result = FALSE
                         /\ inst' = inst
                         /\ products' = products
                    ELSE /\ call'.result = TRUE
                         /\ inst'[w].stock_quantity = self.stock_quantity - q
                         /\ products'[self.pk].stock_quantity = self.stock_quantity - q
      ]_vars

\* reduce_stock was asked for more than a tracked product holds and refused.
C9_Witness ==
    /\ call.op = "reduce_stock"
    /\ call.quantity > call.before
    /\ call.result = FALSE
    /\ \E w \in DOMAIN inst :
          inst[w].track_inventory /\ inst[w].stock_quantity = call.before

\* C9 as stated, for every product whether or not it tracks inventory.
C9_AsStated ==
    [][ \A w \in Workers, q \in StockArgs :
            reduce_stock(w, q) =>
                LET self == inst[w]
                IN  IF q > self.stock_quantity
                    THEN /\ call'.result = FALSE
                         /\ inst'[w].stock_quantity = self.stock_quantity
                    ELSE /\ call'.result = TRUE
                         /\ inst'[w].stock_quantity = self.stock_quantity - q
      ]_vars

\* The ancestors of category c reached in at most n steps up the parent links.
RECURSIVE Ancestors(_, _)
Ancestors(c, n) ==
    IF n = 0 \/ categories[c].parent = None THEN {}
    ELSE {categories[c].parent} \cup Ancestors(categories[c].parent, n - 1)

\* C10: the parent relation is acyclic in every reachable state: no category
\* is its own parent or its own transitive ancestor.
C10_Acyclic ==
    \A c \in CategoryIds : c \notin Ancestors(c, Cardinality(CategoryIds))

----------------------------------------------------------------------------
(* Profiles verified and unverified outside the verify-email endpoint: the  *)
(* admin actions verify_emails / unverify_emails and the sample-data        *)
(* command call the model methods on profiles of their choice.              *)

\* UserProfile.verify_email
UserProfile_verify_email(u) ==
    /\ u \in DOMAIN profiles
    /\ profiles' = IF ~profiles[u].email_verified
                   THEN [profiles EXCEPT ![u] =
                            [email_verified |-> TRUE, email_verified_at |-> now]]
                   ELSE profiles
    /\ UNCHANGED <<users, tokens, now, ticks, issued, jwt, resp, changes,
                   raceVars, catalogVars>>

\* UserProfile.unverify_email
UserProfile_unverify_email(u) ==
    /\ u \in DOMAIN profiles
    /\ profiles' = IF profiles[u].email_verified
                   THEN [profiles EXCEPT ![u] =
                            [email_verified |-> FALSE, email_verified_at |-> None]]
                   ELSE profiles
    /\ UNCHANGED <<users, tokens, now, ticks, issued, jwt, resp, changes,
                   raceVars, catalogVars>>

NextProfile ==
    \/ \E mail \in MailOutcomes :
          register(bob, bob_mail, "pw1", mail, "none") /\ Within(MaxTokens)
    \/ \E t \in TokenArgs, fault \in {"none", "integrity"} : verify_email(t, fault)
    \/ resend_verification_email(bob_mail, "sent") /\ Within(MaxTokens)
    \/ \E p \in {"pw1", "pw2"} : login(bob, p)
    \/ \E u \in UserIds : UserProfile_verify_email(u)
    \/ \E u \in UserIds : UserProfile_unverify_email(u)
    \/ Tick(PastExpiry)

SpecProfile == Init /\ [][NextProfile]_vars

----------------------------------------------------------------------------
(* Properties of the token and profile rows *)

\* C11: a token with used=True has used_at set and a token with used=False
\* has used_at unset.
C11_UsedAtIffUsed ==
    \A t \in TokenIds : tokens[t].used <=> tokens[t].used_at # None

\* C15: a token created without an explicit expiry has expires_at equal to
\* its creation time plus 24 hours, which is in the future, used=False and
\* used_at unset.
C15_FreshToken ==
    [][ \A t \in DOMAIN tokens' \ DOMAIN tokens :
            /\ tokens'[t].created_at = now
            /\ tokens'[t].expires_at = tokens'[t].created_at + 24 * 60
            /\ tokens'[t].expires_at > now
            /\ ~tokens'[t].used
            /\ tokens'[t].used_at = None
      ]_vars

\* A token created after the clock has advanced, still as it was created.
C15_Witness ==
    \E t \in TokenIds :
        /\ tokens[t].created_at > 0
        /\ tokens[t].created_at = now
        /\ tokens[t].expires_at = now + 24 * 60
        /\ ~tokens[t].used

\* C16: a profile has email_verified_at set if and only if email_verified is
\* True.
C16_VerifiedAtIffVerified ==
    \A u \in DOMAIN profiles :
        profiles[u].email_verified <=> profiles[u].email_verified_at # None

\* A profile verified through the endpoint (its user is active) and
\* unverified afterwards, and another state where it is verified with its
\* timestamp.
C16_Witness ==
    \E u \in DOMAIN profiles :
        /\ users[u].is_active
        /\ ~profiles[u].email_verified
        /\ profiles[u].email_verified_at = None
        /\ \E t \in TokenIds : tokens[t].user = u /\ tokens[t].used

----------------------------------------------------------------------------
(* Password resets, with every shape of confirmation request *)

\* <<new_password, confirm_password>> pairs: matching and acceptable,
\* mismatched, weak, missing.
ConfirmRequests ==
    {<<"pw1", "pw1">>, <<"pw2", "pw2">>, <<"pw2", "pw1">>, <<"123", "123">>,
     <<"", "pw2">>, <<"pw2", "">>}

ConfirmFaults == {"none", "error"}

NextReset ==
    \/ register(bob, bob_mail, "pw1", "sent", "none") /\ Within(MaxTokens)
    \/ \E t \in DOMAIN issued : verify_email(t, "none")
    \/ request_password_reset(bob_mail) /\ Within(MaxTokens)
    \/ \E t \in TokenArgs, r \in ConfirmRequests, fault \in ConfirmFaults :
          confirm_password_reset(t, r[1], r[2], fault)
    \/ Tick(PastExpiry)

SpecReset == Init /\ [][NextReset]_vars

\* C18: confirm_password_reset changes the password and marks the token
\* used in one step, and only when the token is unused and unexpired, the
\* two passwords are given and match, and the new password passes the
\* strength rules and differs from the current one; on every other path the
\* users and the tokens are left as they were.
C18_ResetAndConsumeTogether ==
    [][ \A t \in TokenArgs, r \in ConfirmRequests, fault \in ConfirmFaults :
            confirm_password_reset(t, r[1], r[2], fault) =>
                IF /\ r[1] # "" /\ r[2] # "" /\ r[1] = r[2]
                   /\ t \in TokenIds
                   /\ ~tokens[t].used
                   /\ now <= tokens[t].expires_at
                   /\ r[1] \notin WeakPasswords
                   /\ users[tokens[t].user].password # make_password(r[1])
                   /\ fault = "none"
                THEN /\ resp'.status = 200
                     /\ users' = [users EXCEPT
                           ![tokens[t].user].password = make_password(r[1])]
                     /\ tokens'[t].used
                     /\ tokens'[t].used_at = now
                     /\ \A x \in TokenIds \ {t} : tokens'[x] = tokens[x]
                ELSE /\ resp'.status \in {400, 500}
                     /\ users' = users
                     /\ tokens' = tokens
      ]_vars

\* A reset went through, and a later request with the spent token was
\* refused.
C18_Witness ==
    /\ resp = [op |-> "confirm_password_reset", status |-> 400, body |-> "invalid"]
    /\ \E t \in TokenIds :
          /\ tokens[t].used
          /\ tokens[t].used_at # None
          /\ users[tokens[t].user].password = make_password("pw2")

-----------------------------------------------------------------------------
(* The product endpoints *)

MaxViews == 2
MaxImages == 1

\* permissions.SAFE_METHODS
SAFE_METHODS == {"GET", "HEAD", "OPTIONS"}

\* ProductViewSet.get_queryset: the rows an action may look a product up in.
get_queryset(user, action) ==
    IF action \in {"list", "retrieve", "update", "partial_update", "destroy"}
    THEN {p \in DOMAIN products : products[p].owner = user}
    ELSE DOMAIN products

\* A permission that lets every request through.
has_object_permission_any(user, method, obj) == TRUE

\* IsOwnerOrReadOnly.has_object_permission
has_object_permission(user, method, obj) ==
    \/ method \in SAFE_METHODS
    \/ obj.owner = user

\* GenericAPIView.get_object as the viewset configures it: the status the
\* lookup ends with, 200 when the object is handed to the action.
get_object(user, action, method, p) ==
    IF p \notin get_queryset(user, action) THEN 404
    ELSE IF ~has_object_permission(user, method, products[p]) THEN 403
    ELSE 200

\* attrs.get(name): None for a field the request does not carry.  A request
\* is its values together with the names of the fields it carries.
attrs_get(attrs, name) == IF name \in attrs.carried THEN attrs[name] ELSE None

\* Python truth of a nullable number.
Truthy(x) == x # None /\ x # 0

\* Python's  a or b.
Or(a, b) == IF Truthy(a) THEN a ELSE b

\* The field validators on the fields an update request carries; price and
\* stock_quantity are not nullable.
UpdateFieldsValid(attrs) ==
    /\ "price" \in attrs.carried => attrs.price >= 1
    /\ "compare_at_price" \in attrs.carried =>
           attrs.compare_at_price = None \/ attrs.compare_at_price >= 1
    /\ "cost_price" \in attrs.carried =>
           attrs.cost_price = None \/ attrs.cost_price >= 0
    /\ "stock_quantity" \in attrs.carried => attrs.stock_quantity >= 0

\* ProductDetailSerializer.validate with an instance: TRUE when it returns
\* attrs, FALSE when it raises ValidationError.
ProductDetailSerializer_validate(instance, attrs) ==
    LET compare_at_price ==
            Or(attrs_get(attrs, "compare_at_price"), instance.compare_at_price)
        price == Or(attrs_get(attrs, "price"), instance.price)
        cost_price == Or(attrs_get(attrs, "cost_price"), instance.cost_price)
    IN  /\ ~(Truthy(compare_at_price) /\ Truthy(price) /\ compare_at_price <= price)
        /\ ~(Truthy(cost_price) /\ Truthy(price) /\ cost_price > price)

\* ModelSerializer.update: every field the request carries is assigned.
ProductDetailSerializer_update(instance, attrs) ==
    [f \in DOMAIN instance |->
        IF f \in attrs.carried THEN attrs[f] ELSE instance[f]]

\* The reply to a lookup that did not hand over the object.
LookupRefused(op, found) ==
    Reply(op, found, IF found = 404 THEN "not_found" ELSE "denied")

\* PUT / PATCH /products/products/<slug>/ : ModelViewSet.update
product_update(user, p, attrs) ==
    /\ Authenticated(user)
    /\ LET found == get_object(user, "partial_update", "PATCH", p)
       IN  IF found # 200
           THEN /\ LookupRefused("product_update", found)
                /\ UNCHANGED <<products, data>>
           ELSE IF UpdateFieldsValid(attrs)
                   /\ ProductDetailSerializer_validate(products[p], attrs)
           THEN /\ products' = [products EXCEPT
                       ![p] = Product_save(ProductDetailSerializer_update(@, attrs))]
                /\ data' = ProductDetailSerializer_data(p, products'[p])
                /\ Reply("product_update", 200, "ok")
           ELSE /\ Reply("product_update", 400, "invalid")
                /\ UNCHANGED <<products, data>>
    /\ UNCHANGED <<accountVars, raceVars, categories, inst, call, images, hits>>

\* Rows of ProductImage that go with a set of products (on_delete CASCADE).
ImagesKept(gone) == {i \in DOMAIN images : images[i].product \notin gone}

\* DELETE /products/products/<slug>/ : ModelViewSet.destroy
product_destroy(user, p) ==
    /\ Authenticated(user)
    /\ LET found == get_object(user, "destroy", "DELETE", p)
       IN  IF found # 200
           THEN /\ LookupRefused("product_destroy", found)
                /\ UNCHANGED <<products, images>>
           ELSE /\ products' = Restrict(products, DOMAIN products \ {p})
                /\ images' = Restrict(images, ImagesKept({p}))
                /\ Reply("product_destroy", 204, "ok")
    /\ UNCHANGED <<accountVars, raceVars, categories, inst, call, data, hits>>

\* duplicate_data: what ProductViewSet.duplicate copies from the original.
duplicate_data(original) ==
    [name |-> original.name \o <<" ", "(", "C", "o", "p", "y", ")">>,
     price |-> original.price,
     compare_at_price |-> original.compare_at_price,
     cost_price |-> original.cost_price,
     track_inventory |-> original.track_inventory,
     stock_quantity |-> 0,
     low_stock_threshold |-> original.low_stock_threshold,
     allow_backorder |-> original.allow_backorder,
     status |-> "draft"]

\* POST /products/products/<slug>/duplicate/ : ProductViewSet.duplicate
duplicate(user, p) ==
    /\ Authenticated(user)
    /\ LET found == get_object(user, "duplicate", "POST", p)
       IN  IF found # 200
           THEN /\ LookupRefused("duplicate", found)
                /\ UNCHANGED <<products, data, hits>>
           ELSE IF ~ProductCreateSerializer_validate(duplicate_data(products[p]))
           THEN /\ Reply("duplicate", 400, "invalid")
                /\ UNCHANGED <<products, data, hits>>
           ELSE IF UniqueViolated(NewProductId,
                       Product_save(ProductRow(user, duplicate_data(products[p]))))
           THEN \* IntegrityError leaves the view unhandled
                /\ Reply("duplicate", 500, "error")
                /\ UNCHANGED <<products, data, hits>>
           ELSE /\ products' = products @@
                       (NewProductId :>
                           Product_save(ProductRow(user, duplicate_data(products[p]))))
                /\ hits' = hits @@ (NewProductId :> 0)
                /\ data' = ProductDetailSerializer_data(NewProductId, products'[NewProductId])
                /\ Reply("duplicate", 201, "ok")
    /\ UNCHANGED <<accountVars, raceVars, categories, inst, call, images>>

\* PATCH /products/products/<slug>/update_stock/ : ProductViewSet.update_stock
update_stock(user, p, new_quantity) ==
    /\ Authenticated(user)
    /\ LET found == get_object(user, "update_stock", "PATCH", p)
       IN  IF found # 200
           THEN /\ LookupRefused("update_stock", found)
                /\ UNCHANGED <<products, data>>
           ELSE IF new_quantity < 0
           THEN /\ Reply("update_stock", 400, "invalid")
                /\ UNCHANGED <<products, data>>
           ELSE /\ products' = save_stock_quantity(p, new_quantity)
                /\ data' = ProductDetailSerializer_data(p, products'[p])
                /\ Reply("update_stock", 200, "ok")
    /\ UNCHANGED <<accountVars, raceVars, categories, inst, call, images, hits>>

\* The next primary key of the image table.
NewImageId == Cardinality(DOMAIN images) + 1

\* ProductImageInline of the admin: an image row is added to a product.
product_image_add(p) ==
    /\ p \in DOMAIN products
    /\ NewImageId \notin DOMAIN images
    /\ images' = images @@ (NewImageId :> [product |-> p])
    /\ UNCHANGED <<authVars, raceVars, categories, products, inst, call, data, hits>>

\* Requests to the create endpoint: plain ones, and ones whose fields
\* disagree with each other.
CreateRequests ==
    {[price |-> 2, compare_at_price |-> None, cost_price |-> None,
      track_inventory |-> TRUE, stock_quantity |-> 1, status |-> "active"],
     [price |-> 1, compare_at_price |-> MaxPrice, cost_price |-> 0,
      track_inventory |-> TRUE, stock_quantity |-> 0, status |-> "active"],
     [price |-> 2, compare_at_price |-> 1, cost_price |-> None,
      track_inventory |-> TRUE, stock_quantity |-> 0, status |-> "draft"],
     [price |-> 1, compare_at_price |-> None, cost_price |-> 2,
      track_inventory |-> TRUE, stock_quantity |-> 0, status |-> "draft"],
     [price |-> 1, compare_at_price |-> None, cost_price |-> None,
      track_inventory |-> FALSE, stock_quantity |-> 1, status |-> "draft"],
     [price |-> 0, compare_at_price |-> None, cost_price |-> None,
      track_inventory |-> TRUE, stock_quantity |-> 0, status |-> "draft"]}

\* A PATCH request that carries one field.
Patch(name, value) ==
    [carried |-> {name}] @@ (name :> value) @@
    [price |-> None, compare_at_price |-> None, cost_price |-> None,
     track_inventory |-> TRUE, stock_quantity |-> 0]

\* Requests to the update endpoint.
UpdateRequests ==
    {Patch("price", MaxPrice), Patch("price", 0),
     Patch("compare_at_price", 2), Patch("cost_price", 2),
     Patch("track_inventory", FALSE)}

\* Primary keys requests name: every product there can be, copies included.
ProductArgs == 1..(MaxProducts + 1)

StockQuantityArgs == {-1, 1}

\* One seller works on the catalogue through the create, update and
\* update_stock endpoints.
NextShop ==
    \/ /\ NewProductId <= MaxProducts
       /\ \E req \in CreateRequests : product_create(1, req)
    \/ \E p \in ProductArgs, attrs \in UpdateRequests : product_update(1, p, attrs)
    \/ \E p \in ProductArgs, q \in StockQuantityArgs : update_stock(1, p, q)

SpecShop == InitShop /\ [][NextShop]_vars

\* Every user sends requests for every product, their own or not.
NextOwner ==
    \/ /\ NewProductId <= MaxProducts
       /\ \E u \in UserIds : product_create(u, StockRequest(TRUE, 0))
    \/ \E u \in UserIds, p \in ProductArgs :
          product_update(u, p, Patch("price", MaxPrice))
    \/ \E u \in UserIds, p \in ProductArgs : product_destroy(u, p)
    \/ /\ NewProductId <= MaxProducts + 1
       /\ \E u \in UserIds, p \in ProductArgs : duplicate(u, p)
    \/ \E u \in UserIds, p \in ProductArgs : update_stock(u, p, 1)

SpecOwner == InitShop /\ [][NextOwner]_vars

\* C12: in every reachable state a product with track_inventory = False
\* has stock_quantity 0, whatever create, update and update_stock requests
\* produced the state.
C12_UntrackedStockZero ==
    \A p \in DOMAIN products :
        ~products[p].track_inventory => products[p].stock_quantity = 0

\* C13: every product the create and update endpoints have persisted has
\* compare_at_price, when set, above price, and cost_price, when set, at most
\* price.
C13_PricesOrdered ==
    \A p \in DOMAIN products :
        /\ products[p].compare_at_price # None =>
               products[p].compare_at_price > products[p].price
        /\ products[p].cost_price # None =>
               products[p].cost_price <= products[p].price

-----------------------------------------------------------------------------
(* The discount shown with a product *)

\* Every pair of a price and a compare-at price, set or not.
PriceRequest(price, compare_at_price) ==
    [price |-> price, compare_at_price |-> compare_at_price, cost_price |-> None,
     track_inventory |-> TRUE, stock_quantity |-> 0, status |-> "active"]

\* A seller creates products at every pair of prices and reprices them; each
\* response carries discount_percentage.
NextDiscount ==
    \/ /\ NewProductId <= MaxProducts
       /\ \E price \in Prices, compare_at_price \in Prices \cup {None} :
             product_create(1, PriceRequest(price, compare_at_price))
    \/ \E p \in ProductArgs, price \in Prices :
          product_update(1, p, Patch("price", price))
    \/ \E p \in ProductArgs, compare_at_price \in Prices \cup {None} :
          product_update(1, p, Patch("compare_at_price", compare_at_price))
    \/ \E p \in ProductArgs, q \in StockQuantityArgs : update_stock(1, p, q)

SpecDiscount == InitShop /\ [][NextDiscount]_vars

\* C14: discount_percentage is None unless compare_at_price > price; when
\* compare_at_price > price it is (compare_at_price - price) /
\* compare_at_price * 100 with the fraction dropped: the largest whole
\* number of percent not above the exact value.
C14_DiscountTruncated ==
    data.pk # None =>
        IF data.compare_at_price # None /\ data.compare_at_price > data.price
        THEN /\ data.discount_percentage # None
             /\ data.discount_percentage * data.compare_at_price
                    <= (data.compare_at_price - data.price) * 100
             /\ (data.compare_at_price - data.price) * 100
                    < (data.discount_percentage + 1) * data.compare_at_price
        ELSE data.discount_percentage = None

\* A response showed a discount whose exact value is not a whole number of
\* percent and lies nearer to the next one.
C14_Witness ==
    /\ data.pk # None
    /\ data.discount_percentage # None
    /\ 2 * ((data.compare_at_price - data.price) * 100
              - data.discount_percentage * data.compare_at_price)
          > data.compare_at_price

\* C14 as stated: the percentage shown is the exact value rounded to the
\* nearest whole number.
C14_AsStated ==
    data.pk # None =>
        IF data.compare_at_price # None /\ data.compare_at_price > data.price
        THEN /\ data.discount_percentage # None
             /\ 2 * (data.compare_at_price - data.price) * 100 - data.compare_at_price
                    <= 2 * data.discount_percentage * data.compare_at_price
             /\ 2 * data.discount_percentage * data.compare_at_price
                    <= 2 * (data.compare_at_price - data.price) * 100 + data.compare_at_price
        ELSE data.discount_percentage = None

-----------------------------------------------------------------------------
(* Product views *)

\* GET /products/products/<slug>/ : ProductViewSet.retrieve up to
\* self.get_object(), which loads the instance the handler works on.
retrieve_load(w, user, p) ==
    /\ Authenticated(user)
    /\ w \notin DOMAIN inst
    /\ LET found == get_object(user, "retrieve", "GET", p)
       IN  IF found # 200
           THEN /\ LookupRefused("retrieve", found)
                /\ UNCHANGED inst
           ELSE /\ inst' = inst @@ (w :> ([pk |-> p] @@ products[p]))
                /\ UNCHANGED resp
    /\ UNCHANGED <<accountVars, raceVars, categories, products, call, shopVars>>

\* GET /products/public/<slug>/ : public_product_detail up to
\* get_object_or_404(..., status="active"); any caller, signed in or not.
public_product_detail_load(w, p) ==
    /\ w \notin DOMAIN inst
    /\ IF p \in DOMAIN products /\ products[p].status = "active"
       THEN /\ inst' = inst @@ (w :> ([pk |-> p] @@ products[p]))
            /\ UNCHANGED resp
       ELSE /\ Reply("public_product_detail", 404, "not_found")
            /\ UNCHANGED inst
    /\ UNCHANGED <<accountVars, raceVars, categories, products, call, shopVars>>

\* An increment computed from the value the handler loaded.
view_count_update_in_memory(self) == self.view_count + 1

\* update(view_count=F("view_count") + 1): the database adds one to the
\* value the row holds when the statement runs.
view_count_update(self) == products[self.pk].view_count + 1

\* Product.increment_view_count on the instance worker w loaded, and the
\* response that ends the handler.  When the row is gone the UPDATE matches
\* nothing and refresh_from_db raises DoesNotExist.
increment_view_count(w) ==
    /\ w \in DOMAIN inst
    /\ LET self == inst[w]
       IN  IF self.pk \in DOMAIN products
           THEN /\ products' = [products EXCEPT
                       ![self.pk].view_count = view_count_update(self)]
                /\ hits' = [hits EXCEPT ![self.pk] = @ + 1]
                /\ data' = ProductDetailSerializer_data(self.pk,
                       [self EXCEPT !.view_count = products'[self.pk].view_count])
                /\ call' = [op |-> "increment_view_count", before |-> self.view_count,
                            quantity |-> 1, result |-> TRUE]
                /\ Reply("retrieve", 200, "ok")
           ELSE /\ Reply("retrieve", 500, "error")
                /\ UNCHANGED <<products, hits, data, call>>
    /\ inst' = Restrict(inst, DOMAIN inst \ {w})
    /\ UNCHANGED <<accountVars, raceVars, categories, images>>

\* A product on sale, and one still a draft.
ViewRequests == {PriceRequest(1, None), StockRequest(TRUE, 0)}

\* Owners and visitors fetch products while other fetches are in flight.
NextViews ==
    \/ /\ NewProductId <= MaxProducts
       /\ \E req \in ViewRequests : product_create(1, req)
    \/ \E w \in Workers, u \in UserIds, p \in ProductArgs :
          /\ p \in DOMAIN products => products[p].view_count < MaxViews
          /\ retrieve_load(w, u, p)
    \/ \E w \in Workers, p \in ProductArgs :
          /\ p \in DOMAIN products => products[p].view_count < MaxViews
          /\ public_product_detail_load(w, p)
    \/ \E w \in Workers \cap DOMAIN inst :
          /\ inst[w].pk \in DOMAIN products =>
                 products[inst[w].pk].view_count < MaxViews
          /\ increment_view_count(w)
    \/ \E p \in ProductArgs : product_destroy(1, p)

SpecViews == InitShop /\ [][NextViews]_vars

\* C17: whatever the interleaving of retrievals of a product, by its owner
\* or through the public endpoint, its stored view_count has grown by
\* exactly the number of retrievals that ran increment_view_count.
C17_NoLostView ==
    \A p \in DOMAIN products : products[p].view_count = hits[p]

\* A retrieval finished whose instance had been loaded before another
\* retrieval of the same product was counted, and its own was counted too.
C17_Witness ==
    /\ call.op = "increment_view_count"
    /\ data.pk \in DOMAIN products
    /\ data.view_count = call.before + 2
    /\ products[data.pk].view_count = data.view_count

-----------------------------------------------------------------------------
(* Account deletion *)

\* The phrase delete_account compares the confirmation with.
DeletePhrase ==
    <<"d", "e", "l", "e", "t", "e", " ", "m", "y", " ",
      "a", "c", "c", "o", "u", "n", "t">>

\* request.data.get("confirmation", "").strip().lower()
confirmation_of(confirmation_in) == Lower(Strip(confirmation_in))

\* Rows that stay when user u is deleted: every foreign key to the user is
\* on_delete=CASCADE, and so is ProductImage.product.
ProductsKept(u) == {p \in DOMAIN products : products[p].owner # u}
TokensKept(u) == {t \in DOMAIN tokens : tokens[t].user # u}

\* A delete that leaves the products of the user in place.
cascade_products_kept(u) == products

\* The product table after the cascade from user u.
cascade_products(u) == Restrict(products, ProductsKept(u))

\* DELETE /auth/delete-account/ : delete_account.  fault = "error" is an
\* exception inside the atomic block.
delete_account(user, password, confirmation_in, fault) ==
    /\ Authenticated(user)
    /\ LET confirmation == confirmation_of(confirmation_in)
       IN  IF password = ""
           THEN /\ Reply("delete_account", 400, "password_required")
                /\ UNCHANGED <<users, profiles, tokens, products, images>>
           ELSE IF confirmation # DeletePhrase
           THEN /\ Reply("delete_account", 400, "confirmation")
                /\ UNCHANGED <<users, profiles, tokens, products, images>>
           ELSE IF ~check_password(user, password)
           THEN /\ Reply("delete_account", 400, "incorrect_password")
                /\ UNCHANGED <<users, profiles, tokens, products, images>>
           ELSE IF fault = "error"
           THEN /\ users' = atomic_rollback(users,
                                Restrict(users, DOMAIN users \ {user}))
                /\ Reply("delete_account", 500, "error")
                /\ UNCHANGED <<profiles, tokens, products, images>>
           ELSE /\ users' = Restrict(users, DOMAIN users \ {user})
                /\ profiles' = Restrict(profiles, DOMAIN profiles \ {user})
                /\ tokens' = Restrict(tokens, TokensKept(user))
                /\ products' = cascade_products(user)
                /\ images' = Restrict(images,
                       {i \in DOMAIN images : images[i].product \in ProductsKept(user)})
                /\ Reply("delete_account", 200, "deleted")
    /\ UNCHANGED <<now, ticks, issued, jwt, changes, raceVars, categories, inst,
                   call, data, hits>>

\* Deletion requests: the phrase as printed, typed with capitals and a
\* trailing blank, another phrase, and none; with the password, a wrong one
\* and none.
ConfirmationInputs ==
    {DeletePhrase,
     <<"d", "e", "l", "e", "t", "e", " ", "M", "Y", " ",
       "a", "c", "c", "o", "u", "n", "t", " ">>,
     <<"d", "e", "l", "e", "t", "e">>,
     <<>>}

DeletePasswords == {"testpass123", "wrong", ""}

\* <<password, confirmation, fault>>: every confirmation with the right
\* password, every password with the phrase, and a deletion that raises.
DeleteRequests ==
    {<<"testpass123", c, "none">> : c \in ConfirmationInputs}
    \cup {<<pw, DeletePhrase, "none">> : pw \in DeletePasswords}
    \cup {<<"testpass123", DeletePhrase, "error">>}

NextDelete ==
    \/ /\ NewProductId <= MaxProducts + 1
       /\ \E u \in UserIds : product_create(u, StockRequest(TRUE, 0))
    \/ /\ NewImageId <= MaxImages
       /\ \E p \in ProductArgs : product_image_add(p)
    \/ \E u \in UserIds, r \in DeleteRequests :
          delete_account(u, r[1], r[2], r[3])

SpecDelete == InitShop /\ [][NextDelete]_vars

\* What the deletion of user u leaves behind, in terms of the tables before.
DeletedWithEverything(u) ==
    /\ users' = Restrict(users, DOMAIN users \ {u})
    /\ profiles' = Restrict(profiles, DOMAIN profiles \ {u})
    /\ tokens' = Restrict(tokens, {t \in DOMAIN tokens : tokens[t].user # u})
    /\ products' = Restrict(products, {p \in DOMAIN products : products[p].owner # u})
    /\ images' = Restrict(images,
           {i \in DOMAIN images : products[images[i].product].owner # u})
    /\ resp'.status = 200

NothingDeleted ==
    /\ users' = users
    /\ profiles' = profiles
    /\ tokens' = tokens
    /\ products' = products
    /\ images' = images
    /\ resp'.status \in {400, 500}

\* C19: delete_account deletes the user only when the request carries the
\* user's password and a confirmation that reads "delete my account" once
\* surrounding blanks are trimmed and capitals lowered; it then removes the
\* user with the user's profile, tokens, products and those products'
\* images, and leaves every other row; on any failing check, and when the
\* deletion raises, nothing is deleted.
C19_DeleteAccount ==
    [][ \A u \in UserIds, r \in DeleteRequests :
            delete_account(u, r[1], r[2], r[3]) =>
                IF /\ r[1] # ""
                   /\ users[u].password = make_password(r[1])
                   /\ Lower(Strip(r[2])) = DeletePhrase
                   /\ r[3] = "none"
                THEN DeletedWithEverything(u)
                ELSE NothingDeleted
      ]_vars

\* A user who owned a product with an image, a profile and a token has been
\* deleted, and none of these rows is left, while another user's rows are.
C19_Witness ==
    /\ resp = [op |-> "delete_account", status |-> 200, body |-> "deleted"]
    /\ \E u \in DOMAIN issued :
          /\ u \notin DOMAIN users
          /\ u \notin DOMAIN profiles
          /\ \A t \in DOMAIN tokens : tokens[t].user # u
          /\ \E p \in DOMAIN hits : p \notin DOMAIN products
          /\ images = <<>>
    /\ users # <<>>
    /\ products # <<>>

\* C19 as stated: the confirmation has to be the phrase itself.
C19_AsStated ==
    [][ \A u \in UserIds, r \in DeleteRequests :
            delete_account(u, r[1], r[2], r[3]) =>
                IF /\ r[1] # ""
                   /\ users[u].password = make_password(r[1])
                   /\ r[2] = DeletePhrase
                   /\ r[3] = "none"
                THEN DeletedWithEverything(u)
                ELSE NothingDeleted
      ]_vars

-----------------------------------------------------------------------------
(* Ownership *)

\* A request was turned away: no product, image or copy was written, no
\* product data was returned, and the answer is 403 or 404.
Refused ==
    /\ products' = products
    /\ images' = images
    /\ hits' = hits
    /\ data' = data
    /\ resp'.status \in {403, 404}

\* C20: no update, partial_update, destroy, duplicate or update_stock
\* request of ProductViewSet made by a user who does not own the product
\* changes or deletes the product or copies it.
C20_OwnerOnly ==
    [][ \A u \in UserIds, p \in DOMAIN products :
            products[p].owner # u =>
                /\ product_update(u, p, Patch("price", MaxPrice)) => Refused
                /\ product_destroy(u, p) => Refused
                /\ duplicate(u, p) => Refused
                /\ update_stock(u, p, 1) => Refused
      ]_vars

\* A user asked for a copy of another user's product and was denied, and
\* the product is as its owner last left it.
C20_Witness ==
    /\ resp = [op |-> "duplicate", status |-> 403, body |-> "denied"]
    /\ \E p \in DOMAIN products : products[p].price = MaxPrice
    /\ Cardinality(DOMAIN products) = Cardinality(DOMAIN hits)

-----------------------------------------------------------------------------
(* The token table: issuing, spending and sweeping *)

\* An expiry test that takes the instant of expiry as expired.
expired_tokens_inclusive == {t \in TokenIds : tokens[t].expires_at <= now}

\* self.filter(expires_at__lt=timezone.now())
expired_tokens == {t \in TokenIds : tokens[t].expires_at < now}

\* EmailVerificationTokenManager.cleanup_expired; what it returns is kept
\* as the quantity of the call.
cleanup_expired ==
    /\ tokens' = Restrict(tokens, TokenIds \ expired_tokens)
    /\ call' = [op |-> "cleanup_expired", before |-> Cardinality(TokenIds),
                quantity |-> Cardinality(expired_tokens), result |-> TRUE]
    /\ UNCHANGED <<users, profiles, now, ticks, issued, jwt, resp, changes,
                   raceVars, categories, products, inst, shopVars>>

\* The instant a token issued at time 0 expires.
AtExpiry == DEFAULT_EXPIRY_HOURS * 60

\* Tokens issued in all: the sample ones and two more.
TokenBudget == MaxTokens + 2

\* Both sample users ask for reset tokens and spend them, time passes to
\* and beyond an expiry, and the table is swept.
NextTokens ==
    \/ \E e \in RateEmails : request_password_reset(e) /\ Within(TokenBudget)
    \/ \E t \in DOMAIN issued : confirm_password_reset(t, "pw2", "pw2", "none")
    \/ cleanup_expired
    \/ Tick(AtExpiry)
    \/ Tick(PastExpiry)

SpecTokens == InitShop /\ [][NextTokens]_vars

\* C22: after create_for_user(u) the user has exactly one unused token, the
\* one just created; the user's used tokens and every other user's tokens
\* are as they were.
C22_OneUnusedToken ==
    [][ DOMAIN issued' # DOMAIN issued =>
            LET new == NewToken
                u == issued'[new].user
            IN  /\ {t \in DOMAIN tokens' : tokens'[t].user = u /\ ~tokens'[t].used}
                       = {new}
                /\ \A t \in TokenIds :
                       (tokens[t].user # u \/ tokens[t].used) =>
                           t \in DOMAIN tokens' /\ tokens'[t] = tokens[t]
                /\ DOMAIN tokens' \subseteq TokenIds \cup {new}
      ]_vars

\* A user who holds a used token was issued another one, replacing an
\* unused one, while the other user's token stayed.
C22_Witness ==
    \E u \in UserIds :
        /\ \E t \in TokenIds : tokens[t].user = u /\ tokens[t].used
        /\ \E t \in TokenIds : tokens[t].user = u /\ ~tokens[t].used
        /\ \E t \in DOMAIN issued : issued[t].user = u /\ t \notin TokenIds
        /\ \E t \in TokenIds : tokens[t].user # u

\* C23: cleanup_expired deletes exactly the tokens whose expires_at is
\* earlier than the current time and returns their number; no token that
\* get_valid_token accepts at that time is deleted; and get_valid_token
\* returns a token exactly when a row with that value exists, is unused
\* and has not expired.
C23_CleanupAndLookupAgree ==
    /\ [][ cleanup_expired =>
             /\ DOMAIN tokens' = {t \in TokenIds : ~(tokens[t].expires_at < now)}
             /\ \A t \in DOMAIN tokens' : tokens'[t] = tokens[t]
             /\ call'.quantity = Cardinality(TokenIds) - Cardinality(DOMAIN tokens')
             /\ \A t \in TokenArgs :
                    get_valid_token(t) # None => t \in DOMAIN tokens'
         ]_vars
    /\ [](\A t \in TokenArgs :
             IF /\ t \in TokenIds
                /\ ~tokens[t].used
                /\ now <= tokens[t].expires_at
             THEN get_valid_token(t) = t
             ELSE get_valid_token(t) = None)

\* A sweep removed an expired token and kept one that is still valid.
C23_Witness ==
    /\ call.op = "cleanup_expired"
    /\ call.quantity > 0
    /\ \E t \in TokenIds : get_valid_token(t) = t /\ tokens[t].expires_at > now

-----------------------------------------------------------------------------
(* Slugs and SKUs *)

tea == <<"t", "e", "a">>
Tea == <<"T", "e", "a">>
box == <<"b", "o", "x">>

\* A create request for a product of the given name.
NamedRequest(name) ==
    [name |-> name, price |-> 1, compare_at_price |-> None, cost_price |-> None,
     track_inventory |-> TRUE, stock_quantity |-> 0, status |-> "draft"]

\* Sellers create products, some under the same name, and copy them, some
\* more than once.
NextSlug ==
    \/ /\ NewProductId <= MaxProducts + 2
       /\ \E u \in UserIds, name \in {tea, Tea, box} :
             product_create(u, NamedRequest(name))
    \/ /\ NewProductId <= MaxProducts + 2
       /\ \E u \in UserIds, p \in DOMAIN hits : duplicate(u, p)
    \/ \E u \in UserIds, p \in DOMAIN hits : product_destroy(u, p)

SpecSlug == InitShop /\ [][NextSlug]_vars

\* C21: every stored product has a slug and a SKU, no two stored products
\* share a slug or a SKU, and every create and every duplicate succeeds,
\* products of one name and repeated copies of one product included.
C21_GeneratedAndDistinct ==
    /\ \A p \in DOMAIN products :
           products[p].slug # <<>> /\ products[p].sku # <<>>
    /\ \A p, q \in DOMAIN products :
           p # q => products[p].slug # products[q].slug
                    /\ products[p].sku # products[q].sku
    /\ resp.op \in {"product_create", "duplicate"} => resp.status = 201

-----------------------------------------------------------------------------
(* Publishing *)

\* ProductAdmin.activate_products on a selection of one product.
activate_products(p) ==
    /\ p \in DOMAIN products
    /\ LET product == products[p]
           activated == [product EXCEPT
                            !.status = "active",
                            !.published_at = IF @ = None THEN now ELSE @]
       IN  IF product.status # "active"
           THEN /\ products' = [products EXCEPT ![p] = Product_save(activated)]
                /\ call' = [op |-> "activate_products", before |-> product.published_at,
                            quantity |-> 1, result |-> TRUE]
           ELSE /\ UNCHANGED products
                /\ call' = [op |-> "activate_products", before |-> product.published_at,
                            quantity |-> 0, result |-> TRUE]
    /\ UNCHANGED <<authVars, raceVars, categories, inst, shopVars>>

\* ProductAdmin.deactivate_products on a selection of one product:
\* queryset.update(status=INACTIVE), which does not go through save.
deactivate_products(p) ==
    /\ p \in DOMAIN products
    /\ products' = [products EXCEPT ![p].status = "inactive"]
    /\ call' = [op |-> "deactivate_products", before |-> products[p].published_at,
                quantity |-> 1, result |-> TRUE]
    /\ UNCHANGED <<authVars, raceVars, categories, inst, shopVars>>

\* A create request with the given status.
StatusRequest(status) ==
    [price |-> 1, compare_at_price |-> None, cost_price |-> None,
     track_inventory |-> TRUE, stock_quantity |-> 0, status |-> status]

\* A seller creates products as drafts or on sale, puts them on sale,
\* discontinues them and restocks them, the admin activates and deactivates
\* them, and time passes.
NextPublish ==
    \/ /\ NewProductId <= MaxProducts
       /\ \E status \in {"draft", "active"} : product_create(1, StatusRequest(status))
    \/ \E p \in ProductArgs, status \in {"active", "discontinued"} :
          product_update(1, p, Patch("status", status))
    \/ \E p \in ProductArgs : update_stock(1, p, 1)
    \/ \E p \in ProductArgs : activate_products(p)
    \/ \E p \in ProductArgs : deactivate_products(p)
    \/ Tick(InsideWindow)

SpecPublish == InitShop /\ [][NextPublish]_vars

\* C24: published_at is set by the first save of a product with status
\* active, to the time of that save, and never changes afterwards, whatever
\* status changes and other saves follow; a product that is active has
\* published_at set.
C24_PublishedOnce ==
    /\ [][ \A p \in DOMAIN products' :
             IF p \in DOMAIN products
             THEN /\ products[p].published_at # None =>
                         products'[p].published_at = products[p].published_at
                  /\ products[p].published_at = None
                         /\ products'[p].published_at # None =>
                         products'[p].status = "active"
                         /\ products'[p].published_at = now
             ELSE products'[p].published_at =
                      IF products'[p].status = "active" THEN now ELSE None
         ]_vars
    /\ [](\A p \in DOMAIN products :
             products[p].status = "active" => products[p].published_at # None)

\* A product published earlier and taken off sale was activated again, and
\* carries the time of its first publication.
C24_Witness ==
    /\ call.op = "activate_products"
    /\ call.quantity = 1
    /\ call.before # None
    /\ call.before < now
    /\ \E p \in DOMAIN products :
          products[p].status = "active" /\ products[p].published_at = call.before

-----------------------------------------------------------------------------
(* Interleaved registrations *)

\* register up to the atomic block: the request is well formed, no user has
\* the username or the email ignoring case, and the password is strong.
register_check(r, username_in, email_in, password) ==
    LET username == Strip(username_in)
        email == Lower(Strip(email_in))
    IN
    /\ r \notin DOMAIN reqs
    /\ username # <<>> /\ email # <<>> /\ password # ""
    /\ Len(username) >= MinUsernameLen
    /\ Len(username) <= MaxUsernameLen
    /\ ValidEmail(email)
    /\ UsersByUsernameIExact(username) = {}
    /\ UsersByEmailIExact(email) = {}
    /\ StrongPassword(password)
    /\ reqs' = reqs @@ (r :> [op |-> "register", username |-> username,
                              email |-> email, password |-> password])
    /\ UNCHANGED <<authVars, catalogVars>>

\* unique=True on auth_user.username: an exact comparison made by the
\* database when the row is inserted.
UsernameTaken(username) == \E u \in UserIds : users[u].username = username

\* register's atomic block, on what was checked before.  The INSERT fails
\* with IntegrityError when the very same username is stored already.
register_commit(r, mail) ==
    /\ r \in DOMAIN reqs
    /\ reqs[r].op = "register"
    /\ LET u == NewUserId
           row == create_user(reqs[r].username, reqs[r].email, reqs[r].password)
       IN  IF UsernameTaken(reqs[r].username)
           THEN /\ Reply("register", 400, "integrity")
                /\ UNCHANGED <<users, profiles, tokens, issued>>
           ELSE /\ Cardinality(UserIds) < MaxUsers
                /\ users' = users @@ (u :> row)
                /\ profiles' = profiles @@ (u :> DefaultProfile)
                /\ send_verification_email(u, mail, "register")
                /\ Reply("register", 201, "created")
    /\ reqs' = Restrict(reqs, DOMAIN reqs \ {r})
    /\ UNCHANGED <<now, ticks, jwt, changes, catalogVars>>

NextRegisterRace ==
    \/ \E r \in 1..MaxReqs, i \in RegisterPairs : register_check(r, i[1], i[2], "pw1")
    \/ \E r \in 1..MaxReqs : register_commit(r, "sent")

SpecRegisterRace == Init /\ [][NextRegisterRace]_vars

\* C25: under any interleaving of register requests no two stored users
\* share a username ignoring case or an email ignoring case.
C25_NoSharedIdentity ==
    \A u, v \in UserIds :
        u # v => /\ ~IExact(users[u].username, users[v].username)
                 /\ ~IExact(users[u].email, users[v].email)

-----------------------------------------------------------------------------
(* Interleaved stock movements *)

\* C26: whatever the interleaving of reduce_stock and increase_stock calls
\* made on one tracked product through separately loaded instances, every
\* reduction that returns True lowers the stored stock_quantity by its
\* quantity and every increase raises it by its quantity, so the stored
\* quantity is the initial one plus the increases minus the successful
\* reductions, and it never falls below 0.
C26_StockLedger ==
    [][ \A w \in Workers \cap DOMAIN inst, q \in StockArgs :
            inst[w].track_inventory /\ inst[w].pk \in DOMAIN products =>
                LET stored == products[inst[w].pk].stock_quantity
                    after == products'[inst[w].pk].stock_quantity
                IN  /\ reduce_stock(w, q) =>
                           /\ after >= 0
                           /\ after = IF call'.result THEN stored - q ELSE stored
                    /\ increase_stock(w, q) => after = stored + q
      ]_vars

-----------------------------------------------------------------------------
(* Accounts: changing the password and deactivating *)

\* IsAuthenticated behind JWT authentication: the request carries a token
\* issued to this user, and the user it names is still active.
JWTAuthenticated(user) == user \in jwt /\ Authenticated(user)

\* POST /auth/change-password/
change_password(user, current_password, new_password, confirm_password) ==
    LET op == "change_password"
    IN
    /\ UNCHANGED <<profiles, tokens, issued, now, ticks, jwt, changes,
                   raceVars, catalogVars>>
    /\ IF ~JWTAuthenticated(user)
       THEN Reply(op, 401, "not_authenticated") /\ UNCHANGED users
       ELSE IF current_password = "" \/ new_password = "" \/ confirm_password = ""
       THEN Reply(op, 400, "required") /\ UNCHANGED users
       ELSE IF ~check_password(user, current_password)
       THEN Reply(op, 400, "incorrect_current") /\ UNCHANGED users
       ELSE IF new_password # confirm_password
       THEN Reply(op, 400, "mismatch") /\ UNCHANGED users
       ELSE IF ~StrongPassword(new_password)
       THEN Reply(op, 400, "weak_password") /\ UNCHANGED users
       ELSE IF check_password(user, new_password)
       THEN Reply(op, 400, "same_password") /\ UNCHANGED users
       ELSE /\ users' = [users EXCEPT ![user].password = make_password(new_password)]
            /\ Reply(op, 200, "password_changed")

\* POST /auth/deactivate/
deactivate_account(user, password) ==
    LET op == "deactivate_account"
    IN
    /\ UNCHANGED <<profiles, tokens, issued, now, ticks, jwt, changes,
                   raceVars, catalogVars>>
    /\ IF ~JWTAuthenticated(user)
       THEN Reply(op, 401, "not_authenticated") /\ UNCHANGED users
       ELSE IF password = ""
       THEN Reply(op, 400, "required") /\ UNCHANGED users
       ELSE IF ~check_password(user, password)
       THEN Reply(op, 400, "incorrect_password") /\ UNCHANGED users
       ELSE /\ users' = [users EXCEPT ![user].is_active = FALSE]
            /\ Reply(op, 200, "deactivated")

AccountNames == {bob, amy}
AccountPasswords == {"pw1", "pw2"}
LoginRequests == AccountNames \X AccountPasswords

\* Two accounts through every authentication endpoint.
NextAccount ==
    \/ register(bob, bob_mail, "pw1", "sent", "none") /\ Within(MaxTokens)
    \/ register(amy, amy_mail, "pw1", "sent", "none") /\ Within(MaxTokens)
    \/ \E r \in LoginRequests : login(r[1], r[2])
    \/ \E t \in TokenArgs, fault \in {"none", "integrity"} : verify_email(t, fault)
    \/ \E e \in RateEmails : resend_verification_email(e, "sent") /\ Within(MaxTokens)
    \/ \E e \in RateEmails : request_password_reset(e) /\ Within(MaxTokens)
    \/ \E t \in TokenArgs : confirm_password_reset(t, "pw2", "pw2", "none")
    \/ \E u \in 1..MaxUsers : change_password(u, "pw1", "pw2", "pw2")
    \/ \E u \in 1..MaxUsers, p \in AccountPasswords : deactivate_account(u, p)

SpecAccount == Init /\ [][NextAccount]_vars

\* C27: for every user created by register, in every state reachable through
\* the authentication endpoints (register, verify_email,
\* resend_verification_email, login, request and confirm password reset,
\* change_password, deactivate_account), an active user has a profile with
\* email_verified set.
C27_ActiveIsVerified ==
    \A u \in UserIds :
        users[u].is_active => u \in DOMAIN profiles /\ profiles[u].email_verified

C27_Witness ==
    \E u \in UserIds :
        /\ users[u].is_active
        /\ check_password(u, "pw2")
        /\ resp.op = "change_password" /\ resp.status = 200

\* A user whose deactivate_account request succeeded: the user holds issued
\* JWT tokens, which only a login of an active user hands out, and is_active
\* is False, which among the endpoints only deactivate_account writes.
Deactivated(u) == u \in UserIds /\ u \in jwt /\ ~users[u].is_active

\* C28: once deactivate_account has succeeded for a user, no later public
\* authentication request (login, verify_email with any outstanding token,
\* resend_verification_email, request_password_reset,
\* confirm_password_reset) sets that user's is_active back to True, and no
\* login answers with JWT tokens for that user.
C28_StaysDeactivated ==
    [][ /\ \A u \in UserIds, p \in AccountPasswords :
               (JWTAuthenticated(u) /\ deactivate_account(u, p) /\ resp'.status = 200)
                   => Deactivated(u)'
        /\ \A u \in UserIds :
               Deactivated(u) =>
                   /\ ~users'[u].is_active
                   /\ \A r \in LoginRequests :
                          (login(r[1], r[2]) /\ resp'.status = 200)
                              => authenticate(Strip(r[1]), r[2]) # u
      ]_vars

C28_Witness ==
    \E u \in UserIds, t \in TokenIds :
        /\ Deactivated(u)
        /\ tokens[t].user = u /\ ~tokens[t].used
        /\ resp = [op |-> "verify_email", status |-> 200, body |-> "already_verified"]

-----------------------------------------------------------------------------
(* Stock status: the properties and the list filter *)

\* Product.is_in_stock
is_in_stock(self) ==
    IF ~self.track_inventory THEN TRUE
    ELSE self.stock_quantity > 0 \/ self.allow_backorder

\* Product.is_low_stock
is_low_stock(self) ==
    IF ~self.track_inventory THEN FALSE
    ELSE 0 < self.stock_quantity /\ self.stock_quantity <= self.low_stock_threshold

\* Product.is_out_of_stock
is_out_of_stock(self) ==
    IF ~self.track_inventory THEN FALSE
    ELSE self.stock_quantity = 0

StockStatuses == {"in_stock", "low_stock", "out_of_stock"}

\* ProductFilter.filter_queryset, ?stock_status=...: the products selected
stock_status_filter(stock_status) ==
    IF stock_status = "in_stock"
    THEN {p \in DOMAIN products :
              ~products[p].track_inventory \/ products[p].stock_quantity > 0}
    ELSE IF stock_status = "low_stock"
    THEN {p \in DOMAIN products :
              /\ products[p].track_inventory
              /\ products[p].stock_quantity > 0
              /\ products[p].stock_quantity <= products[p].low_stock_threshold}
    ELSE IF stock_status = "out_of_stock"
    THEN {p \in DOMAIN products :
              products[p].track_inventory /\ products[p].stock_quantity = 0}
    ELSE DOMAIN products

\* A create request that sets the inventory fields.
InventoryRequest(track_inventory, stock_quantity, low_stock_threshold, allow_backorder) ==
    [price |-> 1, compare_at_price |-> None, cost_price |-> None,
     track_inventory |-> track_inventory, stock_quantity |-> stock_quantity,
     low_stock_threshold |-> low_stock_threshold,
     allow_backorder |-> allow_backorder, status |-> "active"]

Thresholds == 0..(MaxStock - 1)

\* A seller creates products with every setting of the inventory fields,
\* changes them and restocks.
NextInventory ==
    \/ /\ NewProductId <= MaxProducts
       /\ \E tr \in BOOLEAN, q \in 0..MaxStock, th \in Thresholds, b \in BOOLEAN :
             product_create(1, InventoryRequest(tr, q, th, b))
    \/ \E p \in ProductArgs, b \in BOOLEAN :
          product_update(1, p, Patch("allow_backorder", b))
    \/ \E p \in ProductArgs, th \in Thresholds :
          product_update(1, p, Patch("low_stock_threshold", th))
    \/ \E p \in ProductArgs, q \in 0..MaxStock : update_stock(1, p, q)

SpecInventory == InitShop /\ [][NextInventory]_vars

\* C29: for every product, is_in_stock and is_out_of_stock are never both
\* true, is_low_stock and is_out_of_stock are never both true, and the
\* stock_status filter bucket (in_stock, low_stock, out_of_stock) that
\* selects the product agrees with those properties.
C29_StockStatus ==
    \A p \in DOMAIN products :
        /\ ~(is_in_stock(products[p]) /\ is_out_of_stock(products[p]))
        /\ ~(is_low_stock(products[p]) /\ is_out_of_stock(products[p]))
        /\ p \in stock_status_filter("in_stock") <=> is_in_stock(products[p])
        /\ p \in stock_status_filter("low_stock") <=> is_low_stock(products[p])
        /\ p \in stock_status_filter("out_of_stock") <=> is_out_of_stock(products[p])

-----------------------------------------------------------------------------
(* Categories: the walks up the parent links *)

\* What a walk that never reaches a root stands for: the while loop of level
\* never ends, the recursion of full_name ends in RecursionError.
Unending == -3

\* Category.level: the loop  while current: level += 1; current =
\* current.parent.  A walk still on a category after as many steps as there
\* are categories is on a cycle and never ends.
RECURSIVE level_walk(_, _, _)
level_walk(current, level, fuel) ==
    IF current = None THEN level
    ELSE IF fuel = 0 THEN Unending
    ELSE level_walk(categories[current].parent, level + 1, fuel - 1)

Category_level(self) ==
    level_walk(categories[self].parent, 0, Cardinality(CategoryIds))

\* Category.full_name: self.parent.full_name > self.name, the path of
\* categories from the root down, or <<Unending>> when the recursion never
\* reaches a root.
RECURSIVE full_name_walk(_, _)
full_name_walk(self, fuel) ==
    IF categories[self].parent = None THEN <<self>>
    ELSE IF fuel = 0 THEN <<Unending>>
    ELSE LET above == full_name_walk(categories[self].parent, fuel - 1)
         IN  IF above = <<Unending>> THEN above ELSE above \o <<self>>

Category_full_name(self) == full_name_walk(self, Cardinality(CategoryIds))

\* C30: the ancestor walks in Category.clean, Category.level and
\* Category.full_name terminate for every category in every state reachable
\* through category create and update operations.
C30_WalksTerminate ==
    \A c \in CategoryIds :
        /\ Category_level(c) # Unending
        /\ Category_full_name(c) # <<Unending>>
        /\ \A parent \in ParentChoices : Category_clean(c, parent) # "diverges"

====
